---------------------------- MODULE Spec2Model ----------------------------
(***************************************************************************)
(* A model of atman-persist: the Shamir key manager (shamir_keys.py), the  *)
(* Merkle integrity tree (integrity.py), the soul codec (soul_encoder.py,  *)
(* soul_decoder.py) and the resurrection protocol (resurrection.py over    *)
(* arweave_store.py).                                                      *)
(*                                                                         *)
(* Library primitives are modelled by their contracts: SHA-256 and SHA-512 *)
(* digests are collision-free terms or values drawn once per key, AES-GCM  *)
(* is an authenticated cipher whose tag binds key, nonce, associated data  *)
(* and ciphertext, zlib is a lossless container.  Byte sequences are       *)
(* 1-indexed here and 0-indexed in the source.                             *)
(***************************************************************************)
EXTENDS Integers, Sequences, FiniteSets, TLC

(***************************************************************************)
(* Bounds of the model.                                                    *)
(***************************************************************************)
\* small share counts explored exhaustively (num_shares in 1..MaxShares)
MaxShares == 4
\* thresholds explored (threshold in 1..MaxThreshold)
MaxThreshold == 3
\* longest list of shares handed to combine
MaxPick == 3
\* longest list of fragments handed to the Merkle tree
MaxFragments == 5
\* uploads the store receives (from clients and from full_ceremony)
MaxUploads == 1
\* phases a run of resurrect may log
MaxPhases == 4

(***************************************************************************)
(* Program constants.                                                      *)
(***************************************************************************)
\* ShamirKeyManager.__init__(prime=257)
Prime == 257
\* len(key) != 32 in split; key_length = 32 in combine
KeyLen == 32
\* len(rng_seed): a SHA-512 digest
SeedLen == 64

VARIABLES
    \* ---- ShamirKeyManager: one split followed by one combine ----
    key,            \* the key handed to split
    threshold,      \* split's threshold
    num_shares,     \* split's num_shares
    rng_seed,       \* sha512(key + b"shamir-coefficients").digest()
    split_result,   \* what split returned or raised
    split_again,    \* a further split of the same key: its share count, the
                    \* values randbelow returned in it, what it returned
    combine_input,  \* the list of shares handed to combine
    combine_result, \* what combine returned or raised
    shamir_pc,      \* "idle" | "start" | "split" | "split again" | "combined"
    \* ---- MerkleIntegrity: root, proof and verification of one list ----
    tree_leaves,    \* the fragment dicts handed to compute_root/prove_fragment
    tree_index,     \* prove_fragment's fragment_index
    tree_root,      \* what compute_root returned
    tree_proof,     \* what prove_fragment returned or raised
    tree_valid,     \* what verify_proof returned
    tree_again,     \* a further call of compute_root: its list, its answer
    merkle_pc,      \* "idle" | "start" | "rooted" | "proved" | "verified"
    \* ---- SoulEncoder / SoulDecoder: one encode, one change, one decode ----
    enc_soul,       \* the Soul handed to encode
    enc_key,        \* the encoder's key
    enc_nonce,      \* the nonce os.urandom(12) drew
    encoded,        \* what encode returned
    wire,           \* the payload handed to decode
    dec_key,        \* the decoder's key
    decoded,        \* what decode returned or raised
    codec_pc,       \* "idle" | "start" | "encoded" | "changed" | "decoded"
    \* ---- ResurrectionProtocol over a store ----
    store,          \* the objects the store holds: tx_id -> payload
    tag_index,      \* the store's Agent-Id tags, oldest first: [agent, tx]
    tagging,        \* whether this store records the Agent-Id tag of an upload
    verify,         \* self._verify
    orch_key,       \* self._key
    call,           \* the last call made on the protocol
    phases,         \* what the call's download and decode did
    outcome,        \* what the call returned or raised
    uploads,        \* how many uploads the store has taken
    last_upload,    \* who made the last upload, of which record, how
    \* ---- one run of resurrect, phase by phase ----
    run_in,         \* the store, the tx_id and self._verify of the run
    run_pc,         \* "idle" | "download" | "decode" | "verify" | "returned"
    run_log,        \* the phases executed so far, in order
    run_fetched,    \* what store.download returned or raised
    run_decoded,    \* what decode returned or raised
    run_result      \* the ResurrectionResult returned

vars == <<key, threshold, num_shares, rng_seed, split_result, split_again,
          combine_input, combine_result, shamir_pc,
          tree_leaves, tree_index, tree_root, tree_proof, tree_valid, tree_again,
          merkle_pc,
          enc_soul, enc_key, enc_nonce, encoded, wire, dec_key, decoded, codec_pc,
          store, tag_index, tagging, verify, orch_key, call, phases, outcome,
          uploads, last_upload,
          run_in, run_pc, run_log, run_fetched, run_decoded, run_result>>

run_vars == <<run_in, run_pc, run_log, run_fetched, run_decoded, run_result>>

orch_vars == <<store, tag_index, tagging, verify, orch_key, call, phases, outcome,
               uploads, last_upload>>

codec_vars == <<enc_soul, enc_key, enc_nonce, encoded, wire, dec_key, decoded, codec_pc>>

merkle_vars ==
    <<tree_leaves, tree_index, tree_root, tree_proof, tree_valid, tree_again, merkle_pc>>

shamir_vars == <<key, threshold, num_shares, rng_seed, split_result, split_again,
                 combine_input, combine_result, shamir_pc>>

(***************************************************************************)
(* Python helpers.                                                         *)
(***************************************************************************)
\* Body over the value of an expression, the expression evaluated once
Bind(value, Body(_)) == CHOOSE r \in {Body(x) : x \in {value}} : TRUE

Min(a, b) == IF a < b THEN a ELSE b

\* s[a:b] for 0 <= a <= b (Python slices clip to the length of s)
slice(s, a, b) ==
    LET hi == Min(b, Len(s))
    IN  IF a >= hi THEN <<>> ELSE SubSeq(s, a + 1, hi)

RECURSIVE int_from_bytes(_)
\* int.from_bytes(bs, "big"); the empty sequence is 0
int_from_bytes(bs) ==
    IF bs = <<>> THEN 0
    ELSE int_from_bytes(SubSeq(bs, 1, Len(bs) - 1)) * 256 + bs[Len(bs)]

\* y.to_bytes(2, "big") for 0 <= y < 65536
to_bytes2(y) == <<y \div 256, y % 256>>

RECURSIVE int_pow(_, _)
\* pow(x, i) over the integers
int_pow(x, i) == IF i = 0 THEN 1 ELSE x * int_pow(x, i - 1)

RECURSIVE pow_mod(_, _, _)
\* pow(b, e, p) for e >= 0
pow_mod(b, e, p) ==
    IF e = 0 THEN 1 % p
    ELSE LET h == pow_mod(b, e \div 2, p)
             sq == (h * h) % p
         IN  IF e % 2 = 1 THEN (sq * (b % p)) % p ELSE sq

(***************************************************************************)
(* ShamirKeyManager                                                        *)
(***************************************************************************)
\* hashlib.sha256(key).hexdigest()[:16], a collision-free term
fingerprint_of(k) == <<"sha256/16", k>>

RECURSIVE eval_poly_from(_, _, _)
eval_poly_from(coeffs, x, i) ==
    IF i > Len(coeffs) THEN 0
    ELSE coeffs[i] * int_pow(x, i - 1) + eval_poly_from(coeffs, x, i + 1)

\* _eval_poly: the polynomial over the integers, reduced by the caller
eval_poly(coeffs, x) == eval_poly_from(coeffs, x, 1)

\* offset = (byte_idx * (threshold - 1) + c) * 2
coeff_offset(byte_idx, c, t) == (byte_idx * (t - 1) + c) * 2

\* the c-th derived coefficient of byte position byte_idx (both 0-based)
derived_coeff(seed, byte_idx, c, t) ==
    LET offset == coeff_offset(byte_idx, c, t)
    IN  (seed[(offset % SeedLen) + 1] * 256
         + seed[((offset + 1) % SeedLen) + 1]) % Prime

\* coeffs = [byte_val] + the threshold - 1 derived coefficients
coeffs_of(k, seed, byte_idx, t) ==
    <<k[byte_idx + 1]>> \o
    [c \in 1..(t - 1) |-> derived_coeff(seed, byte_idx, c - 1, t)]

\* the evaluation stored for share i (0-based) at byte position byte_idx
share_value(k, seed, byte_idx, t, i) ==
    eval_poly(coeffs_of(k, seed, byte_idx, t), i + 1) % Prime

\* vals of share i (0-based): 2 bytes, big-endian, per key byte
share_data(k, seed, t, i) ==
    [n \in 1..(2 * Len(k)) |->
        to_bytes2(share_value(k, seed, (n - 1) \div 2, t, i))[((n - 1) % 2) + 1]]

\* the data of share i (0-based) in shares_data: one byte per key byte, from
\* the polynomial whose coefficients secrets.randbelow returned; draws holds
\* them in the order they were drawn
random_share_data(k, draws, t, i) ==
    [b \in 1..Len(k) |->
        eval_poly(<<k[b]>> \o [c \in 1..(t - 1) |-> draws[(b - 1) * (t - 1) + c]],
                  i + 1) % 256]

\* split returning the shares built from the random coefficients
split_returning_random_shares(k, t, n, seed, draws) ==
    IF Len(k) # KeyLen THEN [err |-> "InvalidKeyLength", shares |-> <<>>]
    ELSE IF t > n THEN [err |-> "InvalidThreshold", shares |-> <<>>]
    ELSE IF t < 2 THEN [err |-> "InvalidThreshold", shares |-> <<>>]
    ELSE [err |-> "none",
          shares |-> [i \in 1..n |->
                        [index |-> i,
                         data |-> random_share_data(k, draws, t, i - 1),
                         fingerprint |-> fingerprint_of(k)]]]

\* split without the lower limit of the threshold
split_threshold_floor_unchecked(k, t, n, seed, draws) ==
    IF Len(k) # KeyLen THEN [err |-> "InvalidKeyLength", shares |-> <<>>]
    ELSE IF t > n THEN [err |-> "InvalidThreshold", shares |-> <<>>]
    ELSE [err |-> "none",
          shares |-> [i \in 1..n |->
                        [index |-> i,
                         data |-> share_data(k, seed, t, i - 1),
                         fingerprint |-> fingerprint_of(k)]]]

\* split(key, threshold, num_shares), with the digest of the key and the
\* values secrets.randbelow returns given: shares is built from the random
\* coefficients and dropped, full_shares is returned
split(k, t, n, seed, draws) ==
    IF Len(k) # KeyLen THEN [err |-> "InvalidKeyLength", shares |-> <<>>]
    ELSE IF t > n THEN [err |-> "InvalidThreshold", shares |-> <<>>]
    ELSE IF t < 2 THEN [err |-> "InvalidThreshold", shares |-> <<>>]
    ELSE LET shares == [i \in 1..n |->
                          [index |-> i,
                           data |-> random_share_data(k, draws, t, i - 1),
                           fingerprint |-> fingerprint_of(k)]]
             full_shares == [i \in 1..n |->
                               [index |-> i,
                                data |-> share_data(k, seed, t, i - 1),
                                fingerprint |-> fingerprint_of(k)]]
         IN  [err |-> "none", shares |-> full_shares]

RECURSIVE lagrange_term(_, _, _, _, _, _, _)
\* the inner loop over j of _lagrange_interpolate, for term i (1-based)
lagrange_term(x, xs, i, j, num, den, p) ==
    IF j > Len(xs) THEN (num * pow_mod(den, p - 2, p))
    ELSE IF i # j
         THEN lagrange_term(x, xs, i, j + 1,
                            (num * (x - xs[j])) % p,
                            (den * (xs[i] - xs[j])) % p, p)
         ELSE lagrange_term(x, xs, i, j + 1, num, den, p)

RECURSIVE lagrange_sum(_, _, _, _, _, _)
lagrange_sum(x, xs, ys, i, result, p) ==
    IF i > Len(xs) THEN result
    ELSE lagrange_sum(x, xs, ys, i + 1,
                      (result + lagrange_term(x, xs, i, 1, ys[i], 1, p)) % p, p)

\* _lagrange_interpolate(x, xs, ys)
lagrange_interpolate(x, xs, ys) == lagrange_sum(x, xs, ys, 1, 0, Prime)

\* the byte combine assembles at position byte_idx (0-based)
combine_byte(shares, byte_idx) ==
    LET xs == [s \in 1..Len(shares) |-> shares[s].index]
        ys == [s \in 1..Len(shares) |->
                 int_from_bytes(slice(shares[s].data, byte_idx * 2, byte_idx * 2 + 2))]
    IN  lagrange_interpolate(0, xs, ys) % 256

\* combine(shares, key_length)
\* combine without the comparison of the shares' fingerprints
combine_fingerprints_unchecked(shares, key_length) ==
    IF Len(shares) < 2 THEN [err |-> "InsufficientShares", key |-> <<>>]
    ELSE LET result == [b \in 1..key_length |-> combine_byte(shares, b - 1)]
         IN  IF fingerprint_of(result) # shares[1].fingerprint
             THEN [err |-> "ShareReconstructionFailed", key |-> <<>>]
             ELSE [err |-> "none", key |-> result]

\* combine without the comparison of the key's fingerprint at the end
combine_result_unchecked(shares, key_length) ==
    IF Len(shares) < 2 THEN [err |-> "InsufficientShares", key |-> <<>>]
    ELSE IF Cardinality({shares[s].fingerprint : s \in 1..Len(shares)}) > 1
         THEN [err |-> "MismatchedShareFingerprints", key |-> <<>>]
    ELSE [err |-> "none", key |-> [b \in 1..key_length |-> combine_byte(shares, b - 1)]]

combine(shares, key_length) ==
    IF Len(shares) < 2 THEN [err |-> "InsufficientShares", key |-> <<>>]
    ELSE IF Cardinality({shares[s].fingerprint : s \in 1..Len(shares)}) > 1
         THEN [err |-> "MismatchedShareFingerprints", key |-> <<>>]
    ELSE LET result == [b \in 1..key_length |-> combine_byte(shares, b - 1)]
         IN  IF fingerprint_of(result) # shares[1].fingerprint
             THEN [err |-> "ShareReconstructionFailed", key |-> <<>>]
             ELSE [err |-> "none", key |-> result]

(***************************************************************************)
(* Python values and canonical JSON.                                       *)
(*                                                                         *)
(* A Python value is a record [t, v]: t names its type, v holds it.        *)
(* Floats are held in hundredths (v = 95 is 0.95).  A string that is the   *)
(* hex digest of a hash is held as the hash term (t = "hex").  JSON text   *)
(* is a sequence of tokens [t, v].                                         *)
(***************************************************************************)
PyNone == [t |-> "null", v |-> 0]
PyBool(b) == [t |-> "bool", v |-> b]
PyInt(n) == [t |-> "int", v |-> n]
PyFloat(n) == [t |-> "float", v |-> n]
PyStr(str) == [t |-> "str", v |-> str]
PyHex(h) == [t |-> "hex", v |-> h]
PyList(items) == [t |-> "list", v |-> items]
PyTuple(items) == [t |-> "tuple", v |-> items]
PyDict(d) == [t |-> "dict", v |-> d]
PyBytes(b) == [t |-> "bytes", v |-> b]

RECURSIVE json_serializable(_)
\* json.dumps(x) returns: FALSE where it raises TypeError (a bytes value)
json_serializable(x) ==
    CASE x.t = "bytes" -> FALSE
      [] x.t \in {"list", "tuple"} -> \A i \in 1..Len(x.v) : json_serializable(x.v[i])
      [] x.t = "dict" -> \A k \in DOMAIN x.v : json_serializable(x.v[k])
      [] OTHER -> TRUE

\* bool(x)
truthy(x) ==
    CASE x.t = "null" -> FALSE
      [] x.t = "bool" -> x.v
      [] x.t \in {"int", "float"} -> x.v # 0
      [] x.t = "str" -> x.v # ""
      [] x.t \in {"list", "tuple", "bytes"} -> Len(x.v) > 0
      [] x.t = "dict" -> DOMAIN x.v # {}
      [] OTHER -> TRUE

Tok(kind, val) == [t |-> kind, v |-> val]

\* the dictionary keys of the model, in the order sorted() gives them
KeyOrder ==
    <<"agent_id", "created_at", "domain", "fragments", "key", "merkle_root",
      "metadata", "model_origin", "note", "provenance", "timestamp", "value",
      "version", "weight", "zeta">>

\* sorted(d.keys())
sorted_keys(d) == SelectSeq(KeyOrder, LAMBDA k : k \in DOMAIN d)

RECURSIVE dumps(_)
RECURSIVE dumps_items(_, _)
RECURSIVE dumps_members(_, _, _)

\* the elements of a list or tuple from position i on, "," between them
dumps_items(items, i) ==
    IF i > Len(items) THEN <<>>
    ELSE (IF i > 1 THEN <<Tok(",", 0)>> ELSE <<>>)
         \o dumps(items[i]) \o dumps_items(items, i + 1)

\* the members of a dict in key order from position i on
dumps_members(d, ks, i) ==
    IF i > Len(ks) THEN <<>>
    ELSE (IF i > 1 THEN <<Tok(",", 0)>> ELSE <<>>)
         \o <<Tok("str", ks[i]), Tok(":", 0)>> \o dumps(d[ks[i]])
         \o dumps_members(d, ks, i + 1)

\* json.dumps(x, sort_keys=True, separators=(",", ":")): a tuple is written
\* as an array, like a list
dumps(x) ==
    CASE x.t = "null" -> <<Tok("null", 0)>>
      [] x.t = "bool" -> <<Tok(IF x.v THEN "true" ELSE "false", 0)>>
      [] x.t = "int" -> <<Tok("int", x.v)>>
      [] x.t = "float" -> <<Tok("float", x.v)>>
      [] x.t = "str" -> <<Tok("str", x.v)>>
      [] x.t = "hex" -> <<Tok("hex", x.v)>>
      [] x.t \in {"list", "tuple"} ->
            <<Tok("[", 0)>> \o dumps_items(x.v, 1) \o <<Tok("]", 0)>>
      [] x.t = "dict" ->
            <<Tok("{", 0)>> \o dumps_members(x.v, sorted_keys(x.v), 1)
            \o <<Tok("}", 0)>>

RECURSIVE digits(_)
\* the number of decimal digits of n >= 0
digits(n) == IF n < 10 THEN 1 ELSE 1 + digits(n \div 10)

\* the bytes a token takes in the UTF-8 text
token_len(tk) ==
    CASE tk.t \in {"{", "}", "[", "]", ",", ":"} -> 1
      [] tk.t \in {"null", "true"} -> 4
      [] tk.t = "false" -> 5
      [] tk.t = "int" -> IF tk.v < 0 THEN 1 + digits(0 - tk.v) ELSE digits(tk.v)
      [] tk.t = "float" ->
            IF tk.v < 0 THEN 4 + digits((0 - tk.v) \div 100)
            ELSE 3 + digits(tk.v \div 100)
      [] tk.t = "str" -> Len(tk.v) + 2
      [] tk.t = "hex" -> 66

RECURSIVE text_len(_)
\* len(payload.encode("utf-8"))
text_len(toks) ==
    IF Len(toks) = 0 THEN 0
    ELSE IF Len(toks) = 1 THEN token_len(toks[1])
    ELSE LET half == Len(toks) \div 2
         IN  text_len(SubSeq(toks, 1, half))
             + text_len(SubSeq(toks, half + 1, Len(toks)))

NoParse == [ok |-> FALSE, val |-> PyNone, next |-> 0]

RECURSIVE parse_value(_, _)
RECURSIVE parse_items(_, _, _)
RECURSIVE parse_members(_, _, _)

\* the elements of an array after "[": acc holds those read so far
parse_items(toks, i, acc) ==
    LET r == parse_value(toks, i)
    IN  IF ~r.ok \/ r.next > Len(toks) THEN NoParse
        ELSE IF toks[r.next].t = "]"
             THEN [ok |-> TRUE, val |-> PyList(Append(acc, r.val)), next |-> r.next + 1]
        ELSE IF toks[r.next].t = ","
             THEN parse_items(toks, r.next + 1, Append(acc, r.val))
        ELSE NoParse

\* the members of an object after "{": a repeated key keeps its last value
parse_members(toks, i, acc) ==
    IF i + 1 > Len(toks) \/ toks[i].t # "str" \/ toks[i + 1].t # ":"
    THEN NoParse
    ELSE LET r == parse_value(toks, i + 2)
             d == (toks[i].v :> r.val) @@ acc
         IN  IF ~r.ok \/ r.next > Len(toks) THEN NoParse
             ELSE IF toks[r.next].t = "}"
                  THEN [ok |-> TRUE, val |-> PyDict(d), next |-> r.next + 1]
             ELSE IF toks[r.next].t = ","
                  THEN parse_members(toks, r.next + 1, d)
             ELSE NoParse

\* one JSON value starting at token i
parse_value(toks, i) ==
    IF i > Len(toks) THEN NoParse
    ELSE LET tk == toks[i]
         IN  CASE tk.t = "null" -> [ok |-> TRUE, val |-> PyNone, next |-> i + 1]
               [] tk.t = "true" -> [ok |-> TRUE, val |-> PyBool(TRUE), next |-> i + 1]
               [] tk.t = "false" -> [ok |-> TRUE, val |-> PyBool(FALSE), next |-> i + 1]
               [] tk.t = "int" -> [ok |-> TRUE, val |-> PyInt(tk.v), next |-> i + 1]
               [] tk.t = "float" -> [ok |-> TRUE, val |-> PyFloat(tk.v), next |-> i + 1]
               [] tk.t = "str" -> [ok |-> TRUE, val |-> PyStr(tk.v), next |-> i + 1]
               [] tk.t = "hex" -> [ok |-> TRUE, val |-> PyHex(tk.v), next |-> i + 1]
               [] tk.t = "[" ->
                     IF i + 1 <= Len(toks) /\ toks[i + 1].t = "]"
                     THEN [ok |-> TRUE, val |-> PyList(<<>>), next |-> i + 2]
                     ELSE parse_items(toks, i + 1, <<>>)
               [] tk.t = "{" ->
                     IF i + 1 <= Len(toks) /\ toks[i + 1].t = "}"
                     THEN [ok |-> TRUE, val |-> PyDict(<<>>), next |-> i + 2]
                     ELSE parse_members(toks, i + 1, <<>>)
               [] OTHER -> NoParse

\* json.loads(raw): ok is FALSE where it raises JSONDecodeError
loads(toks) ==
    LET r == parse_value(toks, 1)
    IN  IF r.ok /\ r.next = Len(toks) + 1
        THEN [ok |-> TRUE, val |-> r.val]
        ELSE [ok |-> FALSE, val |-> PyNone]

(***************************************************************************)
(* Soul and SoulFragment (soul_encoder.py).  A fragment and a soul are     *)
(* records whose fields hold Python values.                                *)
(***************************************************************************)
SoulFragment(domain, k, value, weight, timestamp, provenance) ==
    [domain |-> domain, key |-> k, value |-> value, weight |-> weight,
     timestamp |-> timestamp, provenance |-> provenance]

Soul(agent_id, version, fragments, created_at, model_origin, metadata) ==
    [agent_id |-> agent_id, version |-> version, fragments |-> fragments,
     created_at |-> created_at, model_origin |-> model_origin,
     metadata |-> metadata]

\* dataclasses.asdict(fragment)
asdict_fragment(f) ==
    PyDict([domain |-> f.domain, key |-> f.key, value |-> f.value,
            weight |-> f.weight, timestamp |-> f.timestamp,
            provenance |-> f.provenance])

\* dataclasses.asdict(soul)
asdict(soul) ==
    PyDict([agent_id |-> soul.agent_id, version |-> soul.version,
            fragments |-> PyList([i \in 1..Len(soul.fragments) |->
                                    asdict_fragment(soul.fragments[i])]),
            created_at |-> soul.created_at, model_origin |-> soul.model_origin,
            metadata |-> soul.metadata])

(***************************************************************************)
(* MerkleIntegrity (integrity.py).  A SHA-256 digest is the term           *)
(* <<"sha256", preimage>>: two digests are equal only for equal preimages. *)
(***************************************************************************)
sha256(preimage) == <<"sha256", preimage>>

\* _leaf_hash(fragment): the hash of b"leaf:" + the canonical JSON
leaf_hash(fragment) == sha256(<<"leaf:", dumps(fragment)>>)

\* a node hash that leaves the right child out
node_hash_left_only(left, right) == sha256(<<"node:", left, left>>)

\* _node_hash(left, right): the hash of "node:{left}:{right}"
node_hash(left, right) == sha256(<<"node:", left, right>>)

\* an odd level padded with its first hash
pad_even_with_first(hashes) ==
    IF Len(hashes) % 2 = 1 THEN Append(hashes, hashes[1]) ELSE hashes

\* hashes.append(hashes[-1]) when the length is odd
pad_even(hashes) ==
    IF Len(hashes) % 2 = 1 THEN Append(hashes, hashes[Len(hashes)]) ELSE hashes

\* next_level: the hashes of the pairs of an even-length level
pair_up(level) ==
    [i \in 1..(Len(level) \div 2) |-> node_hash(level[2 * i - 1], level[2 * i])]

RECURSIVE build_tree(_)
\* _build_tree(hashes)
build_tree(hashes) ==
    IF Len(hashes) = 1 THEN hashes[1]
    ELSE build_tree(pair_up(pad_even(hashes)))

\* compute_root answering the hash of no bytes for an empty list
compute_root_leaves_hash_of_nothing(leaves) ==
    IF leaves = <<>> THEN sha256(<<>>)
    ELSE build_tree([i \in 1..Len(leaves) |-> leaf_hash(leaves[i])])

\* compute_root(leaves) over a list of fragment dicts
compute_root_leaves(leaves) ==
    IF leaves = <<>> THEN sha256(<<"empty-soul">>)
    ELSE build_tree([i \in 1..Len(leaves) |-> leaf_hash(leaves[i])])

\* compute_root(soul) over a Soul: leaves = [asdict(f) for f in soul.fragments]
compute_root(soul) ==
    compute_root_leaves([i \in 1..Len(soul.fragments) |->
                            asdict_fragment(soul.fragments[i])])

\* seq[k] for a Python index k: negative indices count from the end
py_in_range(seq, k) == k < Len(seq) /\ k >= 0 - Len(seq)

py_at(seq, k) == IF k >= 0 THEN seq[k + 1] ELSE seq[Len(seq) + k + 1]

\* side = "right" if index % 2 == 0 else "left"
sibling_side_swapped(index) == IF index % 2 = 0 THEN "left" ELSE "right"

sibling_side(index) == IF index % 2 = 0 THEN "right" ELSE "left"

RECURSIVE collect_siblings(_, _, _)
\* _collect_siblings(hashes, index): index ^ 1 is index + 1 for an even
\* index and index - 1 for an odd one
collect_siblings(level0, index, siblings) ==
    IF Len(level0) <= 1 THEN [err |-> "none", siblings |-> siblings]
    ELSE LET level == pad_even(level0)
             sibling_idx == IF index % 2 = 0 THEN index + 1 ELSE index - 1
         IN  IF sibling_idx < Len(level)
             THEN IF py_in_range(level, sibling_idx)
                  THEN collect_siblings(
                           pair_up(level), index \div 2,
                           Append(siblings,
                                  <<py_at(level, sibling_idx), sibling_side(index)>>))
                  ELSE [err |-> "IndexError", siblings |-> <<>>]
             ELSE collect_siblings(pair_up(level), index \div 2, siblings)

NoProof == [err |-> "IndexError", leaf_index |-> 0, leaf_hash |-> sha256(<<>>),
            siblings |-> <<>>, root |-> sha256(<<>>)]

\* prove_fragment(leaves, fragment_index): err is "IndexError" where an
\* index raises
prove_fragment(leaves, fragment_index) ==
    LET hashes == pad_even([i \in 1..Len(leaves) |-> leaf_hash(leaves[i])])
    IN  IF ~py_in_range(leaves, fragment_index) THEN NoProof
        ELSE LET sib == collect_siblings(hashes, fragment_index, <<>>)
             IN  IF sib.err # "none" THEN NoProof
                 ELSE [err |-> "none",
                       leaf_index |-> fragment_index,
                       leaf_hash |-> leaf_hash(py_at(leaves, fragment_index)),
                       siblings |-> sib.siblings,
                       root |-> build_tree(hashes)]

RECURSIVE fold_proof(_, _, _)
\* the loop of verify_proof
fold_proof(current, siblings, i) ==
    IF i > Len(siblings) THEN current
    ELSE fold_proof(IF siblings[i][2] = "right"
                    THEN node_hash(current, siblings[i][1])
                    ELSE node_hash(siblings[i][1], current),
                    siblings, i + 1)

\* verify_proof(proof)
verify_proof(proof) == fold_proof(proof.leaf_hash, proof.siblings, 1) = proof.root

(***************************************************************************)
(* SoulEncoder and SoulDecoder (soul_encoder.py, soul_decoder.py).         *)
(*                                                                         *)
(* An encoded payload is the record [head, box, xor]: head holds the bytes *)
(* before the ciphertext, box names the AES-GCM output E = encrypt(key,    *)
(* nonce, pt, aad), whose bytes are not computed, and xor holds, byte for  *)
(* byte, the difference between the ciphertext on the wire and E.  The     *)
(* ciphertext has len(pt) + TagLen bytes and authenticates under (key,     *)
(* nonce, aad) exactly when it is E itself.                                *)
(***************************************************************************)
\* SoulEncoder.MAGIC = b"ATMAN"
MAGIC == <<65, 84, 77, 65, 78>>

\* 5 + 1 + 12 + 4: magic, version, nonce, original_size
HeaderLen == 22

\* the bytes of a GCM authentication tag
TagLen == 16

\* os.urandom(12)
NonceLen == 12

\* SoulEncoder.FORMAT_VERSION
FORMAT_VERSION == 1

\* original_size.to_bytes(4, "big") for 0 <= n < 2^32
to_bytes4(n) ==
    <<(n \div 16777216) % 256, (n \div 65536) % 256, (n \div 256) % 256, n % 256>>

\* zlib.compress(raw, level=9): a lossless container, one unit per unit of
\* raw between a header and a trailer that carries the length
zlib_compress(raw) ==
    <<[t |-> "header", v |-> 0]>>
    \o [i \in 1..Len(raw) |-> [t |-> "data", v |-> raw[i]]]
    \o <<[t |-> "trailer", v |-> Len(raw)]>>

\* zlib.decompress(compressed): ok is FALSE where it raises zlib.error
zlib_decompress(compressed) ==
    LET n == Len(compressed)
    IN  IF /\ n >= 2
           /\ compressed[1].t = "header"
           /\ compressed[n].t = "trailer"
           /\ compressed[n].v = n - 2
           /\ \A i \in 2..(n - 1) : compressed[i].t = "data"
        THEN [ok |-> TRUE, raw |-> [i \in 1..(n - 2) |-> compressed[i + 1].v]]
        ELSE [ok |-> FALSE, raw |-> <<>>]

\* AESGCM(key).encrypt(nonce, pt, associated_data): the ciphertext and tag
aesgcm_encrypt(k, nonce, pt, aad) ==
    [box |-> [key |-> k, nonce |-> nonce, aad |-> aad, pt |-> pt],
     xor |-> [i \in 1..(Len(pt) + TagLen) |-> 0]]

\* a decryption that does not compare the 16 tag bytes
aesgcm_decrypt_tag_unchecked(k, nonce, ct, aad) ==
    IF /\ Len(ct.xor) = Len(ct.box.pt) + TagLen
       /\ \A i \in 1..Len(ct.box.pt) : ct.xor[i] = 0
       /\ ct.box.key = k
       /\ ct.box.nonce = nonce
       /\ ct.box.aad = aad
    THEN [ok |-> TRUE, pt |-> ct.box.pt]
    ELSE [ok |-> FALSE, pt |-> <<>>]

\* a decryption that opens under any key
aesgcm_decrypt_any_key(k, nonce, ct, aad) ==
    IF /\ Len(ct.xor) = Len(ct.box.pt) + TagLen
       /\ \A i \in 1..Len(ct.xor) : ct.xor[i] = 0
       /\ ct.box.nonce = nonce
       /\ ct.box.aad = aad
    THEN [ok |-> TRUE, pt |-> ct.box.pt]
    ELSE [ok |-> FALSE, pt |-> <<>>]

\* AESGCM(key).decrypt(nonce, ct, associated_data): ok is FALSE where it
\* raises InvalidTag
aesgcm_decrypt(k, nonce, ct, aad) ==
    IF /\ Len(ct.xor) = Len(ct.box.pt) + TagLen
       /\ \A i \in 1..Len(ct.xor) : ct.xor[i] = 0
       /\ ct.box.key = k
       /\ ct.box.nonce = nonce
       /\ ct.box.aad = aad
    THEN [ok |-> TRUE, pt |-> ct.box.pt]
    ELSE [ok |-> FALSE, pt |-> <<>>]

\* len(data)
payload_len(data) == Len(data.head) + Len(data.xor)

\* SoulEncoder(key).encode(soul), with the nonce os.urandom drew
encode(soul, k, nonce) ==
    LET raw == dumps(asdict(soul))
        original_size == text_len(raw)
        compressed == zlib_compress(raw)
        ciphertext == aesgcm_encrypt(k, nonce, compressed, MAGIC)
        header == MAGIC \o <<FORMAT_VERSION>>
        size_bytes == to_bytes4(original_size)
    IN  [head |-> header \o nonce \o size_bytes,
         box |-> ciphertext.box,
         xor |-> ciphertext.xor]

FragmentFields == {"domain", "key", "value", "weight", "timestamp", "provenance"}

\* SoulFragment(**frag): ok is FALSE where it raises TypeError
fragment_from(frag, now) ==
    IF frag.t # "dict" THEN [ok |-> FALSE, fragment |-> <<>>]
    ELSE LET d == frag.v
         IN  IF ~(DOMAIN d \subseteq FragmentFields)
                \/ ~({"domain", "key", "value"} \subseteq DOMAIN d)
             THEN [ok |-> FALSE, fragment |-> <<>>]
             ELSE [ok |-> TRUE,
                   fragment |->
                       SoulFragment(
                           d["domain"], d["key"], d["value"],
                           IF "weight" \in DOMAIN d THEN d["weight"] ELSE PyFloat(100),
                           IF "timestamp" \in DOMAIN d THEN d["timestamp"] ELSE now,
                           IF "provenance" \in DOMAIN d THEN d["provenance"] ELSE PyStr(""))]

\* an iteration that yields a list's items last to first
fragment_items_reversed(frags) ==
    IF frags.t \in {"list", "tuple"}
    THEN [ok |-> TRUE,
          items |-> [i \in 1..Len(frags.v) |-> frags.v[Len(frags.v) + 1 - i]]]
    ELSE [ok |-> FALSE, items |-> <<>>]

\* what iterating obj.pop("fragments", []) yields: ok is FALSE where the
\* value cannot be iterated (TypeError)
fragment_items(frags) ==
    CASE frags.t \in {"list", "tuple"} -> [ok |-> TRUE, items |-> frags.v]
      [] frags.t = "dict" ->
            [ok |-> TRUE,
             items |-> [i \in 1..Len(sorted_keys(frags.v)) |-> PyStr(sorted_keys(frags.v)[i])]]
      [] frags.t = "str" ->
            [ok |-> TRUE, items |-> [i \in 1..Len(frags.v) |-> PyStr("char")]]
      [] frags.t = "hex" -> [ok |-> TRUE, items |-> <<PyStr("char")>>]
      [] OTHER -> [ok |-> FALSE, items |-> <<>>]

NoSoul == <<>>

\* SoulDecoder._reconstruct(obj): err names the exception where it raises
reconstruct(obj, now) ==
    IF obj.t = "list" THEN [err |-> "TypeError", soul |-> NoSoul]
    ELSE IF obj.t # "dict" THEN [err |-> "AttributeError", soul |-> NoSoul]
    ELSE LET d == obj.v
             frags == IF "fragments" \in DOMAIN d THEN d["fragments"] ELSE PyList(<<>>)
             items == fragment_items(frags)
             built == [i \in 1..Len(items.items) |-> fragment_from(items.items[i], now)]
         IN  IF ~items.ok \/ \E i \in 1..Len(built) : ~built[i].ok
             THEN [err |-> "TypeError", soul |-> NoSoul]
             ELSE IF "agent_id" \notin DOMAIN d
             THEN [err |-> "KeyError", soul |-> NoSoul]
             ELSE [err |-> "none",
                   soul |->
                       Soul(d["agent_id"],
                            IF "version" \in DOMAIN d THEN d["version"] ELSE PyInt(1),
                            [i \in 1..Len(built) |-> built[i].fragment],
                            IF "created_at" \in DOMAIN d THEN d["created_at"] ELSE PyInt(0),
                            IF "model_origin" \in DOMAIN d THEN d["model_origin"] ELSE PyStr(""),
                            IF "metadata" \in DOMAIN d THEN d["metadata"] ELSE PyDict(<<>>))]

\* the errors decode raises as SoulDecodeError
SoulDecodeErrors ==
    {"PayloadTooShort", "BadMagic", "UnsupportedVersion", "DecryptionFailed",
     "DecompressionFailed", "SizeMismatch", "MalformedContent"}

Failed(kind) == [err |-> kind, soul |-> NoSoul]

\* len(raw) == int.from_bytes(size_bytes, "big") for the 4 bytes of the
\* header: an integer of 2^31 or more is above every length met here
size_is(size_bytes, length) ==
    size_bytes[1] < 128 /\ int_from_bytes(size_bytes) = length

\* decode without the comparison of len(raw) with the size in the header
decode_size_unchecked(data, k, now) ==
    IF payload_len(data) < HeaderLen THEN Failed("PayloadTooShort")
    ELSE IF slice(data.head, 0, 5) # MAGIC THEN Failed("BadMagic")
    ELSE IF data.head[6] # FORMAT_VERSION THEN Failed("UnsupportedVersion")
    ELSE LET nonce == slice(data.head, 6, 18)
             ciphertext == [box |-> data.box, xor |-> data.xor]
             opened == aesgcm_decrypt(k, nonce, ciphertext, MAGIC)
         IN  IF ~opened.ok THEN Failed("DecryptionFailed")
             ELSE LET inflated == zlib_decompress(opened.pt)
                  IN  IF ~inflated.ok THEN Failed("DecompressionFailed")
                      ELSE LET obj == loads(inflated.raw)
                           IN  IF ~obj.ok THEN Failed("MalformedContent")
                               ELSE reconstruct(obj.val, now)

\* SoulDecoder(key).decode(data): err is "none" where it returns a Soul
decode(data, k, now) ==
    IF payload_len(data) < HeaderLen THEN Failed("PayloadTooShort")
    ELSE IF slice(data.head, 0, 5) # MAGIC THEN Failed("BadMagic")
    ELSE IF data.head[6] # FORMAT_VERSION THEN Failed("UnsupportedVersion")
    ELSE LET nonce == slice(data.head, 6, 18)
             original_size == slice(data.head, 18, 22)
             ciphertext == [box |-> data.box, xor |-> data.xor]
             opened == aesgcm_decrypt(k, nonce, ciphertext, MAGIC)
         IN  IF ~opened.ok THEN Failed("DecryptionFailed")
             ELSE LET inflated == zlib_decompress(opened.pt)
                  IN  IF ~inflated.ok THEN Failed("DecompressionFailed")
                      ELSE IF ~size_is(original_size, text_len(inflated.raw))
                      THEN Failed("SizeMismatch")
                      ELSE LET obj == loads(inflated.raw)
                           IN  IF ~obj.ok THEN Failed("MalformedContent")
                               ELSE reconstruct(obj.val, now)

(***************************************************************************)
(* The Merkle specification: compute_root, prove_fragment and verify_proof *)
(* over one list of fragment dicts.                                        *)
(***************************************************************************)
FragmentA ==
    SoulFragment(PyStr("personality"), PyStr("tone"), PyStr("warm"),
                 PyFloat(100), PyFloat(0), PyStr(""))

FragmentB ==
    SoulFragment(PyStr("values"), PyStr("honesty"), PyInt(7),
                 PyFloat(95), PyFloat(0), PyStr(""))

FragmentPool == {FragmentA, FragmentB}

\* every list of at most len fragments of the pool
RECURSIVE FragmentLists(_)
FragmentLists(len) ==
    IF len = 0 THEN {<<>>}
    ELSE FragmentLists(len - 1)
         \cup {Append(l, f) : l \in {m \in FragmentLists(len - 1) : Len(m) = len - 1},
                              f \in FragmentPool}

\* two fragments whose values differ as Python values and are the same JSON
\* array: a tuple and a list
FragmentOfTuple ==
    SoulFragment(PyStr("meta"), PyStr("pair"), PyTuple(<<PyInt(1), PyInt(2)>>),
                 PyFloat(100), PyFloat(0), PyStr(""))

FragmentOfList ==
    SoulFragment(PyStr("meta"), PyStr("pair"), PyList(<<PyInt(1), PyInt(2)>>),
                 PyFloat(100), PyFloat(0), PyStr(""))

\* FragmentA with another value
FragmentA2 ==
    SoulFragment(PyStr("personality"), PyStr("tone"), PyStr("cold"),
                 PyFloat(100), PyFloat(0), PyStr(""))

\* lists that hold a tuple-valued fragment
TupleLists == {<<FragmentOfTuple>>, <<FragmentA, FragmentOfTuple, FragmentB>>}

\* the fragments a caller may put in place of one
Replacements == FragmentPool \cup {FragmentA2, FragmentOfTuple, FragmentOfList}

RECURSIVE PermsOf(_)
\* every order of the elements of seq
PermsOf(seq) ==
    IF seq = <<>> THEN {<<>>}
    ELSE UNION {{<<seq[i]>> \o q
                   : q \in PermsOf(SubSeq(seq, 1, i - 1) \o SubSeq(seq, i + 1, Len(seq)))}
                : i \in 1..Len(seq)}

\* the lists of a further call of compute_root: the same list, the list with
\* the fragment at fragment_index replaced, (the index plays no part in
\* it: index 0 stands for all) the list in another order, and (index -1,
\* the last fragment) the list followed by a copy of its last fragment
Alterations(leaves, fragment_index) ==
    {leaves}
    \cup (IF fragment_index >= 0 /\ fragment_index < Len(leaves)
          THEN {[leaves EXCEPT ![fragment_index + 1] = asdict_fragment(f)]
                   : f \in Replacements}
          ELSE {})
    \cup (IF fragment_index = 0 THEN PermsOf(leaves) ELSE {})
    \cup (IF fragment_index = 0 - 1 /\ leaves # <<>>
          THEN {Append(leaves, leaves[Len(leaves)])}
          ELSE {})

NoAgain == [leaves |-> <<>>, root |-> sha256(<<>>)]

MerkleStart ==
    /\ \E l \in FragmentLists(MaxFragments) \cup TupleLists :
          tree_leaves = [i \in 1..Len(l) |-> asdict_fragment(l[i])]
    /\ tree_index \in (0 - MaxFragments - 1)..MaxFragments
    /\ tree_root = sha256(<<>>)
    /\ tree_proof = NoProof
    /\ tree_valid = FALSE
    /\ tree_again = NoAgain
    /\ merkle_pc = "start"

MerkleIdle ==
    /\ tree_leaves = <<>>
    /\ tree_index = 0
    /\ tree_root = sha256(<<>>)
    /\ tree_proof = NoProof
    /\ tree_valid = FALSE
    /\ tree_again = NoAgain
    /\ merkle_pc = "idle"

ComputeRoot ==
    /\ merkle_pc = "start"
    /\ tree_root' = compute_root_leaves(tree_leaves)
    /\ merkle_pc' = "rooted"
    /\ UNCHANGED <<tree_leaves, tree_index, tree_proof, tree_valid, tree_again>>
    /\ UNCHANGED <<shamir_vars, codec_vars, orch_vars, run_vars>>

\* compute_root called once more, on the same list or on an altered one
ComputeRootAgain ==
    /\ merkle_pc = "rooted"
    /\ \E other \in Alterations(tree_leaves, tree_index) :
          tree_again' = [leaves |-> other, root |-> compute_root_leaves(other)]
    /\ merkle_pc' = "rooted again"
    /\ UNCHANGED <<tree_leaves, tree_index, tree_root, tree_proof, tree_valid>>
    /\ UNCHANGED <<shamir_vars, codec_vars, orch_vars, run_vars>>

ProveFragment ==
    /\ merkle_pc = "rooted"
    /\ tree_proof' = prove_fragment(tree_leaves, tree_index)
    /\ merkle_pc' = "proved"
    /\ UNCHANGED <<tree_leaves, tree_index, tree_root, tree_valid, tree_again>>
    /\ UNCHANGED <<shamir_vars, codec_vars, orch_vars, run_vars>>

VerifyProof ==
    /\ merkle_pc = "proved"
    /\ tree_proof.err = "none"
    /\ tree_valid' = verify_proof(tree_proof)
    /\ merkle_pc' = "verified"
    /\ UNCHANGED <<tree_leaves, tree_index, tree_root, tree_proof, tree_again>>
    /\ UNCHANGED <<shamir_vars, codec_vars, orch_vars, run_vars>>

\* hashes a holder of the proof can put in place of one of its hashes: leaf
\* hashes of known fragments, the hash the proof folds to, an unrelated hash
ForgeHashes(proof) ==
    {leaf_hash(asdict_fragment(f)) : f \in FragmentPool}
    \cup {fold_proof(proof.leaf_hash, proof.siblings, 1), sha256(<<"forged">>)}

\* the proofs that differ from proof in exactly one hash: the leaf hash, one
\* sibling hash or the root
Forgeries(proof) ==
    {[proof EXCEPT !.leaf_hash = h] : h \in ForgeHashes(proof) \ {proof.leaf_hash}}
    \cup {[proof EXCEPT !.root = h] : h \in ForgeHashes(proof) \ {proof.root}}
    \cup UNION {{[proof EXCEPT !.siblings[s] = <<h, proof.siblings[s][2]>>]
                    : h \in ForgeHashes(proof) \ {proof.siblings[s][1]}}
                : s \in 1..Len(proof.siblings)}

\* a MerkleProof is plain data: its holder replaces one hash of the proof
\* that prove_fragment returned
ForgeProof ==
    /\ merkle_pc = "proved"
    /\ tree_proof.err = "none"
    /\ tree_proof' \in Forgeries(tree_proof)
    /\ merkle_pc' = "forged"
    /\ UNCHANGED <<tree_leaves, tree_index, tree_root, tree_valid, tree_again>>
    /\ UNCHANGED <<shamir_vars, codec_vars, orch_vars, run_vars>>

\* verify_proof on the proof with the replaced hash
VerifyForged ==
    /\ merkle_pc = "forged"
    /\ tree_valid' = verify_proof(tree_proof)
    /\ merkle_pc' = "judged"
    /\ UNCHANGED <<tree_leaves, tree_index, tree_root, tree_proof, tree_again>>
    /\ UNCHANGED <<shamir_vars, codec_vars, orch_vars, run_vars>>

MerkleNext ==
    \/ ComputeRoot \/ ComputeRootAgain
    \/ ProveFragment \/ VerifyProof \/ ForgeProof \/ VerifyForged

(***************************************************************************)
(* Keys shared by the codec and the Shamir specifications.                 *)
(***************************************************************************)
KeyOf(m, c) == [b \in 1..KeyLen |-> (m * b + c) % 256]

\* 32-byte keys
Keys == {KeyOf(1, 0), KeyOf(37, 200)}

(***************************************************************************)
(* The codec specification: encode(soul) under a key and a nonce, at most  *)
(* one change of the payload on its way, decode under a key.               *)
(***************************************************************************)
SoulEmpty ==
    Soul(PyStr("a1"), PyInt(1), <<>>, PyFloat(0), PyStr(""), PyDict(<<>>))

SoulOne ==
    Soul(PyStr("a1"), PyInt(2), <<FragmentA>>, PyFloat(150), PyStr("origin"),
         PyDict([note |-> PyStr("x")]))

\* fragments out of key order, nested metadata
SoulTwo ==
    Soul(PyStr("a2"), PyInt(1), <<FragmentB, FragmentA>>, PyFloat(0), PyStr(""),
         PyDict([zeta |-> PyList(<<PyInt(1), PyNone, PyBool(TRUE)>>),
                 note |-> PyDict([key |-> PyList(<<>>)])]))

\* a fragment whose value is a Python tuple
FragmentT ==
    SoulFragment(PyStr("meta"), PyStr("pair"), PyTuple(<<PyInt(1), PyInt(2)>>),
                 PyFloat(100), PyFloat(0), PyStr(""))

SoulTuple ==
    Soul(PyStr("a1"), PyInt(1), <<FragmentT>>, PyFloat(0), PyStr(""), PyDict(<<>>))

SoulPool == {SoulEmpty, SoulOne, SoulTwo, SoulTuple}

Nonces == {[i \in 1..NonceLen |-> i], [i \in 1..NonceLen |-> 255 - i]}

\* time.time() when a fragment is rebuilt without a timestamp
Now == PyFloat(999)

\* the byte with one bit flipped
flip_bit(byte, bit) ==
    IF (byte \div int_pow(2, bit)) % 2 = 1
    THEN byte - int_pow(2, bit) ELSE byte + int_pow(2, bit)

\* data with bit `bit` of the byte at offset `offset` (0-based) flipped
flip_at(data, offset, bit) ==
    IF offset < Len(data.head)
    THEN [data EXCEPT !.head[offset + 1] = flip_bit(@, bit)]
    ELSE [data EXCEPT !.xor[offset - Len(data.head) + 1] = flip_bit(@, bit)]

NoPayload == [head |-> <<>>, box |-> <<>>, xor |-> <<>>]

NoDecode == [err |-> "pending", soul |-> NoSoul]

CodecStart ==
    /\ enc_soul \in SoulPool
    /\ enc_key \in Keys
    /\ enc_nonce \in Nonces
    /\ encoded = NoPayload
    /\ wire = NoPayload
    /\ dec_key = <<>>
    /\ decoded = NoDecode
    /\ codec_pc = "start"

CodecIdle ==
    /\ enc_soul = NoSoul
    /\ enc_key = <<>>
    /\ enc_nonce = <<>>
    /\ encoded = NoPayload
    /\ wire = NoPayload
    /\ dec_key = <<>>
    /\ decoded = NoDecode
    /\ codec_pc = "idle"

Encode ==
    /\ codec_pc = "start"
    /\ encoded' = encode(enc_soul, enc_key, enc_nonce)
    /\ wire' = encoded'
    /\ codec_pc' = "encoded"
    /\ UNCHANGED <<enc_soul, enc_key, enc_nonce, dec_key, decoded>>
    /\ UNCHANGED <<shamir_vars, merkle_vars, orch_vars, run_vars>>

\* one bit of the ciphertext region (offset 22 or later) flips on the way
FlipCiphertextBit ==
    /\ codec_pc = "encoded"
    /\ \E offset \in HeaderLen..(payload_len(wire) - 1), bit \in 0..7 :
          wire' = flip_at(wire, offset, bit)
    /\ codec_pc' = "changed"
    /\ UNCHANGED <<enc_soul, enc_key, enc_nonce, encoded, dec_key, decoded>>
    /\ UNCHANGED <<shamir_vars, merkle_vars, orch_vars, run_vars>>

\* the values a changed byte may take
ChangedBytes(byte) == {(byte + 1) % 256, (byte + 128) % 256}

\* one byte of the header (offset 0 to 21) changes on the way; a payload
\* may lose up to two header bytes this way
ChangeHeaderByte ==
    /\ codec_pc \in {"encoded", "header changed"}
    /\ \E offset \in 0..(HeaderLen - 1) :
          \E byte \in ChangedBytes(wire.head[offset + 1]) :
             wire' = [wire EXCEPT !.head[offset + 1] = byte]
    /\ codec_pc' = IF codec_pc = "encoded" THEN "header changed" ELSE "changed"
    /\ UNCHANGED <<enc_soul, enc_key, enc_nonce, encoded, dec_key, decoded>>
    /\ UNCHANGED <<shamir_vars, merkle_vars, orch_vars, run_vars>>

\* only the first bytes of the payload, fewer than a header, arrive
Truncate ==
    /\ codec_pc \in {"encoded", "header changed"}
    /\ \E length \in 0..(HeaderLen - 1) :
          wire' = [head |-> slice(wire.head, 0, length), box |-> <<>>, xor |-> <<>>]
    /\ codec_pc' = "changed"
    /\ UNCHANGED <<enc_soul, enc_key, enc_nonce, encoded, dec_key, decoded>>
    /\ UNCHANGED <<shamir_vars, merkle_vars, orch_vars, run_vars>>

Decode ==
    /\ codec_pc \in {"encoded", "header changed", "changed"}
    /\ \E k \in Keys :
          /\ dec_key' = k
          /\ decoded' = decode(wire, k, Now)
    /\ codec_pc' = "decoded"
    /\ UNCHANGED <<enc_soul, enc_key, enc_nonce, encoded, wire>>
    /\ UNCHANGED <<shamir_vars, merkle_vars, orch_vars, run_vars>>

CodecNext == Encode \/ FlipCiphertextBit \/ ChangeHeaderByte \/ Truncate \/ Decode

(***************************************************************************)
(* ArweaveStore and LocalArweaveStore (arweave_store.py).  A store call    *)
(* either completes or raises (io_ok = FALSE: the gateway is unreachable   *)
(* or answers with an error status).                                       *)
(***************************************************************************)
\* the id upload gives data: "local-" + sha256(data).hexdigest()[:32]
tx_id_of(data) == <<"local-", sha256(data)>>

\* the empty string where a transaction id is expected
NoTx == <<>>

NoReceipt == <<>>

StorageReceipt(tx_id, size_bytes, digest) ==
    [tx_id |-> tx_id, size_bytes |-> size_bytes, sha256 |-> digest]

\* st[tx_id] = data
dict_set(st, tx_id, data) ==
    [id \in DOMAIN st \cup {tx_id} |-> IF id = tx_id THEN data ELSE st[id]]

\* store.upload(data, tags={"Agent-Id": agent_id}): the receipt and the
\* store after it, or the error raised.  Only the direct upload hands the
\* tags on (tagged = TRUE); LocalArweaveStore.upload and the Irys upload
\* take the tags and drop them, so the agent search never lists the object.
upload(st, tags, data, agent_id, io_ok, tagged) ==
    IF ~io_ok
    THEN [err |-> "StoreError", receipt |-> NoReceipt, store |-> st, tags |-> tags]
    ELSE [err |-> "none",
          receipt |-> StorageReceipt(tx_id_of(data), payload_len(data), sha256(data)),
          store |-> dict_set(st, tx_id_of(data), data),
          tags |-> IF tagged
                   THEN Append(tags, [agent |-> agent_id, tx |-> tx_id_of(data)])
                   ELSE tags]

\* store.download(tx_id): the bytes, or the error raised
download(st, tx_id, io_ok) ==
    IF ~io_ok THEN [err |-> "StoreError", data |-> NoPayload]
    ELSE IF tx_id \notin DOMAIN st THEN [err |-> "KeyError", data |-> NoPayload]
    ELSE [err |-> "none", data |-> st[tx_id]]

\* store.search_by_agent(agent_id, limit): the ids tagged with the agent,
\* newest first, or the error raised
search_by_agent(tags, agent_id, limit, io_ok) ==
    IF ~io_ok THEN [err |-> "StoreError", ids |-> <<>>]
    ELSE LET hits == SelectSeq(tags, LAMBDA e : e.agent = agent_id)
             newest == [i \in 1..Len(hits) |-> hits[Len(hits) + 1 - i].tx]
         IN  [err |-> "none", ids |-> slice(newest, 0, limit)]

(***************************************************************************)
(* ResurrectionProtocol (resurrection.py).  A call either returns          *)
(* (raised = "none") or raises to its caller (raised names the exception). *)
(* An error text is the sequence of its parts; "" is <<>>.                 *)
(***************************************************************************)
NoMetadata == <<>>

ResurrectionResult(success, soul, source_tx, integrity_verified, error, metadata) ==
    [success |-> success, soul |-> soul, source_tx |-> source_tx,
     integrity_verified |-> integrity_verified, error |-> error,
     metadata |-> metadata]

NoResurrection == <<>>

Returned(result) == [raised |-> "none", result |-> result]

Raised(kind) == [raised |-> kind, result |-> NoResurrection]

\* ResurrectionResult(success=False, source_tx=tx_id, error=...)
failure(tx_id, error) ==
    ResurrectionResult(FALSE, NoSoul, tx_id, FALSE, error, NoMetadata)

\* phase 3 of resurrect: err is the exception it raises, ok is integrity_ok
integrity_check(soul, verify_flag) ==
    IF ~verify_flag THEN [err |-> "none", ok |-> TRUE]
    ELSE IF soul.metadata.t # "dict" THEN [err |-> "AttributeError", ok |-> FALSE]
    ELSE LET stored_root == IF "merkle_root" \in DOMAIN soul.metadata.v
                            THEN soul.metadata.v["merkle_root"] ELSE PyNone
         IN  IF ~truthy(stored_root) THEN [err |-> "none", ok |-> TRUE]
             ELSE [err |-> "none",
                   ok |-> stored_root.t = "hex" /\ stored_root.v = compute_root(soul)]

\* a resurrect without its final `except Exception`
resurrect_decode_errors_only(st, tx_id, io_ok, k, verify_flag, now) ==
    Bind(download(st, tx_id, io_ok), LAMBDA fetched :
      IF fetched.err # "none" THEN Raised(fetched.err)
      ELSE Bind(decode(fetched.data, k, now), LAMBDA d :
        IF d.err \in SoulDecodeErrors
        THEN Returned(failure(tx_id, <<"Decode failed: ", d.err>>))
        ELSE IF d.err # "none" THEN Raised(d.err)
        ELSE Bind(integrity_check(d.soul, verify_flag), LAMBDA checked :
          IF checked.err # "none" THEN Raised(checked.err)
          ELSE Returned(ResurrectionResult(TRUE, d.soul, tx_id, checked.ok, <<>>,
                          [fragment_count |-> Len(d.soul.fragments),
                           model_origin |-> d.soul.model_origin,
                           soul_version |-> d.soul.version])))))

\* ResurrectionProtocol.resurrect(tx_id)
resurrect(st, tx_id, io_ok, k, verify_flag, now) ==
    Bind(download(st, tx_id, io_ok), LAMBDA fetched :
      IF fetched.err # "none" THEN Returned(failure(tx_id, <<fetched.err>>))
      ELSE Bind(decode(fetched.data, k, now), LAMBDA d :
        IF d.err \in SoulDecodeErrors
        THEN Returned(failure(tx_id, <<"Decode failed: ", d.err>>))
        ELSE IF d.err # "none" THEN Returned(failure(tx_id, <<d.err>>))
        ELSE Bind(integrity_check(d.soul, verify_flag), LAMBDA checked :
          IF checked.err # "none" THEN Returned(failure(tx_id, <<checked.err>>))
          ELSE Returned(ResurrectionResult(TRUE, d.soul, tx_id, checked.ok, <<>>,
                          [fragment_count |-> Len(d.soul.fragments),
                           model_origin |-> d.soul.model_origin,
                           soul_version |-> d.soul.version])))))

\* resurrect_latest taking the last of up to ten ids found
resurrect_latest_oldest(st, tags, agent_id, search_ok, io_ok, k, verify_flag, now) ==
    LET found == search_by_agent(tags, agent_id, 10, search_ok)
    IN  IF found.err # "none" THEN Raised(found.err)
        ELSE IF found.ids = <<>>
        THEN Returned(ResurrectionResult(FALSE, NoSoul, NoTx, FALSE,
                        <<"No soul found for agent: ", agent_id.v>>, NoMetadata))
        ELSE resurrect(st, found.ids[Len(found.ids)], io_ok, k, verify_flag, now)

\* ResurrectionProtocol.resurrect_latest(agent_id)
resurrect_latest(st, tags, agent_id, search_ok, io_ok, k, verify_flag, now) ==
    LET found == search_by_agent(tags, agent_id, 1, search_ok)
    IN  IF found.err # "none" THEN Raised(found.err)
        ELSE IF found.ids = <<>>
        THEN Returned(ResurrectionResult(FALSE, NoSoul, NoTx, FALSE,
                        <<"No soul found for agent: ", agent_id.v>>, NoMetadata))
        ELSE resurrect(st, found.ids[1], io_ok, k, verify_flag, now)

\* soul.metadata["merkle_root"] = merkle_root
with_merkle_root_alone(soul, merkle_root) ==
    [soul EXCEPT !.metadata = PyDict([name \in {"merkle_root"} |-> merkle_root])]

with_merkle_root(soul, merkle_root) ==
    [soul EXCEPT !.metadata =
        PyDict([name \in DOMAIN soul.metadata.v \cup {"merkle_root"} |->
                   IF name = "merkle_root" THEN merkle_root
                   ELSE soul.metadata.v[name]])]

\* ResurrectionProtocol.full_ceremony(soul): what it returns or raises, the
\* store after it, and the caller's Soul object after it
full_ceremony(st, tags, soul, nonce, upload_ok, tagged, io_ok, k, verify_flag, now) ==
    LET aborted(kind, record) ==
            [raised |-> kind, result |-> NoResurrection, receipt |-> NoReceipt,
             store |-> st, tags |-> tags, soul |-> record]
        leaves == PyList([i \in 1..Len(soul.fragments) |->
                            asdict_fragment(soul.fragments[i])])
        stamped == with_merkle_root(soul, PyHex(compute_root(soul)))
        stored == upload(st, tags, encode(stamped, k, nonce), soul.agent_id,
                         upload_ok, tagged)
        revived == resurrect(stored.store, stored.receipt.tx_id, io_ok, k,
                             verify_flag, now)
    IN  IF ~json_serializable(leaves) THEN aborted("TypeError", soul)
        ELSE IF soul.metadata.t # "dict" THEN aborted("TypeError", soul)
        ELSE IF ~json_serializable(asdict(stamped)) THEN aborted("TypeError", stamped)
        ELSE IF stored.err # "none" THEN aborted(stored.err, stamped)
        ELSE [raised |-> revived.raised, result |-> revived.result,
              receipt |-> stored.receipt, store |-> stored.store,
              tags |-> stored.tags, soul |-> stamped]

(***************************************************************************)
(* The orchestrator specification: clients upload payloads to the store,   *)
(* and a ResurrectionProtocol over that store is called.                   *)
(***************************************************************************)
\* the root full_ceremony stores in the metadata
SoulStamped == with_merkle_root(SoulOne, PyHex(compute_root(SoulOne)))

\* a stored root that is the root of other fragments
SoulWrongRoot == with_merkle_root(SoulOne, PyHex(compute_root(SoulTwo)))

\* a stored root that is the empty string
SoulBlankRoot == with_merkle_root(SoulOne, PyStr(""))

\* metadata that is a list
SoulListMetadata == [SoulOne EXCEPT !.metadata = PyList(<<PyInt(1)>>)]

\* metadata json.dumps cannot write
SoulBytesMetadata == [SoulTwo EXCEPT !.metadata = PyDict([note |-> PyBytes(<<1>>)])]

\* a fragment value json.dumps cannot write
SoulBytesFragment ==
    [SoulOne EXCEPT !.fragments =
        <<SoulFragment(PyStr("meta"), PyStr("blob"), PyBytes(<<1>>),
                       PyFloat(100), PyFloat(0), PyStr(""))>>]

Nonce0 == [i \in 1..NonceLen |-> i]

\* AEAD output over a plaintext of the writer's choice, behind a header
\* that records original_size
sealed(plaintext, original_size, k) ==
    LET ciphertext == aesgcm_encrypt(k, Nonce0, plaintext, MAGIC)
    IN  [head |-> MAGIC \o <<FORMAT_VERSION>> \o Nonce0 \o to_bytes4(original_size),
         box |-> ciphertext.box,
         xor |-> ciphertext.xor]

GoodPayload == encode(SoulStamped, KeyOf(1, 0), Nonce0)

\* payloads decode rejects, one for each stage
DamagedPayloads ==
    { [head |-> slice(GoodPayload.head, 0, 10), box |-> <<>>, xor |-> <<>>],
      [GoodPayload EXCEPT !.head[1] = 66],
      [GoodPayload EXCEPT !.head[6] = 2],
      [GoodPayload EXCEPT !.head[22] = (@ + 1) % 256],
      flip_at(GoodPayload, HeaderLen, 0),
      encode(SoulStamped, KeyOf(37, 200), Nonce0),
      sealed(<<[t |-> "junk", v |-> 0]>>, 1, KeyOf(1, 0)),
      sealed(zlib_compress(<<Tok("{", 0)>>), 1, KeyOf(1, 0)),
      sealed(zlib_compress(dumps(PyList(<<>>))), 2, KeyOf(1, 0)),
      sealed(zlib_compress(dumps(PyStr("x"))), 3, KeyOf(1, 0)),
      sealed(zlib_compress(dumps(PyDict([version |-> PyInt(1)]))), 13, KeyOf(1, 0)),
      sealed(zlib_compress(dumps(PyDict([agent_id |-> PyStr("a1"),
                                          fragments |-> PyInt(1)]))), 31, KeyOf(1, 0)) }

\* what clients upload, each with the Agent-Id tag its writer gives it
Uploads ==
    {[data |-> encode(soul, KeyOf(1, 0), Nonce0), agent |-> soul.agent_id] :
        soul \in {SoulStamped, SoulWrongRoot, SoulBlankRoot, SoulOne,
                  SoulListMetadata, SoulTwo}}
    \cup {[data |-> data, agent |-> PyStr("a1")] : data \in DamagedPayloads}

Agents == {PyStr("a1"), PyStr("a2"), PyStr("a3")}

\* the records full_ceremony is called on; SoulStamped and SoulWrongRoot
\* carry a root from before
CeremonySouls ==
    {SoulOne, SoulTwo, SoulEmpty, SoulBytesMetadata, SoulBytesFragment,
     SoulStamped, SoulWrongRoot}

UnknownTx == tx_id_of(NoPayload)

NoCall == [op |-> "none"]

\* what each phase of a call did: the error it raised, "none", or "skipped"
NoPhases ==
    [search |-> "skipped", root |-> "skipped", encode |-> "skipped",
     upload |-> "skipped",
     download |-> "skipped", decode |-> "skipped", soul |-> NoSoul]

\* the download and decode phases of resurrect(tx_id)
resurrect_phases(st, tx_id, io_ok, k, now) ==
    LET fetched == download(st, tx_id, io_ok)
        d == decode(fetched.data, k, now)
    IN  [NoPhases EXCEPT
            !.download = fetched.err,
            !.decode = IF fetched.err = "none" THEN d.err ELSE "skipped",
            !.soul = IF fetched.err = "none" THEN d.soul ELSE NoSoul]

NoOutcome == [raised |-> "pending", result |-> NoResurrection, receipt |-> NoReceipt]

NoUpload == [by |-> "nobody"]

\* what the store holds when the protocol object is made: nothing, or (in a
\* store that records tags) a record of agent a1 stored earlier
EarlierUploads ==
    {<<>>, <<[data |-> encode(SoulStamped, KeyOf(1, 0), Nonce0),
              agent |-> SoulStamped.agent_id]>>}

RECURSIVE stored_earlier(_, _)
\* the store and its tag index after the uploads of earlier, oldest first
stored_earlier(earlier, i) ==
    IF i = 0 THEN [store |-> <<>>, tags |-> <<>>]
    ELSE LET before == stored_earlier(earlier, i - 1)
         IN  upload(before.store, before.tags, earlier[i].data, earlier[i].agent,
                    TRUE, TRUE)

OrchStart ==
    /\ tagging \in BOOLEAN
    /\ \E earlier \in EarlierUploads :
          /\ earlier # <<>> => tagging
          /\ store = stored_earlier(earlier, Len(earlier)).store
          /\ tag_index = stored_earlier(earlier, Len(earlier)).tags
    /\ verify \in BOOLEAN
    /\ orch_key = KeyOf(1, 0)
    /\ call = NoCall
    /\ phases = NoPhases
    /\ outcome = NoOutcome
    /\ uploads = 0
    /\ last_upload = NoUpload

OrchIdle ==
    /\ store = <<>>
    /\ tag_index = <<>>
    /\ tagging = FALSE
    /\ verify = FALSE
    /\ orch_key = <<>>
    /\ call = NoCall
    /\ phases = NoPhases
    /\ outcome = NoOutcome
    /\ uploads = 0
    /\ last_upload = NoUpload

\* a client stores a payload
Upload ==
    /\ call = NoCall
    /\ uploads < MaxUploads
    /\ \E u \in Uploads :
          LET stored == upload(store, tag_index, u.data, u.agent, TRUE, tagging)
          IN  /\ store' = stored.store
              /\ tag_index' = stored.tags
              /\ last_upload' = [by |-> "client", tx_id |-> stored.receipt.tx_id,
                                 tagged |-> tagging]
    /\ uploads' = uploads + 1
    /\ UNCHANGED <<tagging, verify, orch_key, call, phases, outcome>>
    /\ UNCHANGED <<shamir_vars, merkle_vars, codec_vars, run_vars>>

Resurrect ==
    /\ call = NoCall
    /\ \E tx_id \in DOMAIN store \cup {UnknownTx}, io_ok \in BOOLEAN :
          LET out == resurrect(store, tx_id, io_ok, orch_key, verify, Now)
          IN  /\ call' = [op |-> "resurrect", tx_id |-> tx_id]
              /\ phases' = resurrect_phases(store, tx_id, io_ok, orch_key, Now)
              /\ outcome' = [raised |-> out.raised, result |-> out.result,
                             receipt |-> NoReceipt]
    /\ UNCHANGED <<store, tag_index, tagging, verify, orch_key, uploads, last_upload>>
    /\ UNCHANGED <<shamir_vars, merkle_vars, codec_vars, run_vars>>

ResurrectLatest ==
    /\ call = NoCall
    /\ \E agent_id \in Agents, search_ok \in BOOLEAN, io_ok \in BOOLEAN :
          LET found == search_by_agent(tag_index, agent_id, 1, search_ok)
              out == resurrect_latest(store, tag_index, agent_id, search_ok, io_ok,
                                      orch_key, verify, Now)
          IN  /\ call' = [op |-> "resurrect_latest", agent_id |-> agent_id]
              /\ phases' =
                    IF found.err # "none" \/ found.ids = <<>>
                    THEN [NoPhases EXCEPT !.search = found.err]
                    ELSE [resurrect_phases(store, found.ids[1], io_ok, orch_key, Now)
                             EXCEPT !.search = "none"]
              /\ outcome' = [raised |-> out.raised, result |-> out.result,
                             receipt |-> NoReceipt]
    /\ UNCHANGED <<store, tag_index, tagging, verify, orch_key, uploads, last_upload>>
    /\ UNCHANGED <<shamir_vars, merkle_vars, codec_vars, run_vars>>

FullCeremony ==
    /\ call = NoCall
    /\ uploads < MaxUploads
    /\ \E soul \in CeremonySouls, nonce \in Nonces,
          upload_ok \in BOOLEAN, io_ok \in BOOLEAN :
          LET out == full_ceremony(store, tag_index, soul, nonce, upload_ok, tagging,
                                   io_ok, orch_key, verify, Now)
              rooted == \A i \in 1..Len(soul.fragments) :
                            json_serializable(asdict_fragment(soul.fragments[i]))
              encodes == json_serializable(asdict(soul))
          IN  /\ call' = [op |-> "full_ceremony", soul |-> soul, record |-> out.soul]
              /\ phases' =
                    IF ~rooted THEN [NoPhases EXCEPT !.root = "TypeError"]
                    ELSE IF ~encodes
                    THEN [NoPhases EXCEPT !.root = "none", !.encode = "TypeError"]
                    ELSE IF ~upload_ok
                    THEN [NoPhases EXCEPT !.root = "none", !.encode = "none",
                                          !.upload = "StoreError"]
                    ELSE [resurrect_phases(out.store, out.receipt.tx_id, io_ok,
                                           orch_key, Now)
                             EXCEPT !.root = "none", !.encode = "none",
                                    !.upload = "none"]
              /\ outcome' = [raised |-> out.raised, result |-> out.result,
                             receipt |-> out.receipt]
              /\ store' = out.store
              /\ tag_index' = out.tags
              /\ uploads' = IF out.receipt = NoReceipt THEN uploads ELSE uploads + 1
              /\ last_upload' =
                    IF out.receipt = NoReceipt THEN last_upload
                    ELSE [by |-> "full_ceremony", tx_id |-> out.receipt.tx_id,
                          tagged |-> tagging, soul |-> soul]
    /\ UNCHANGED <<tagging, verify, orch_key>>
    /\ UNCHANGED <<shamir_vars, merkle_vars, codec_vars, run_vars>>

\* the caller takes what the call returned or raised; calls are made one
\* at a time, each awaited before the next
Return ==
    /\ call # NoCall
    /\ call' = NoCall
    /\ phases' = NoPhases
    /\ outcome' = NoOutcome
    /\ UNCHANGED <<store, tag_index, tagging, verify, orch_key, uploads, last_upload>>
    /\ UNCHANGED <<shamir_vars, merkle_vars, codec_vars, run_vars>>

Next == Upload \/ Resurrect \/ ResurrectLatest \/ FullCeremony \/ Return

(***************************************************************************)
(* The run specification: one call of resurrect(tx_id), one phase a step.  *)
(* Each phase is logged when it is executed.                               *)
(***************************************************************************)
\* where resurrect goes after store.download returned or raised
after_download_retry(fetched) ==
    IF fetched.err # "none" THEN "download" ELSE "decode"

after_download(fetched) ==
    IF fetched.err # "none" THEN "returned" ELSE "decode"

\* where resurrect goes after decode returned or raised
after_decode(d) ==
    IF d.err # "none" THEN "returned" ELSE "verify"

\* whether phase 3 recomputes the root: self._verify and
\* soul.metadata.get("merkle_root")
recomputes_root(soul, verify_flag) ==
    /\ verify_flag
    /\ soul.metadata.t = "dict"
    /\ "merkle_root" \in DOMAIN soul.metadata.v
    /\ truthy(soul.metadata.v["merkle_root"])

\* the stores a run reads: one uploaded object each
RunStores == {dict_set(<<>>, tx_id_of(u.data), u.data) : u \in Uploads}

NoFetch == [err |-> "pending", data |-> NoPayload]

RunStart ==
    /\ \E st \in RunStores, verify_flag \in BOOLEAN :
          \E tx_id \in DOMAIN st \cup {UnknownTx} :
             run_in = [store |-> st, tx_id |-> tx_id, verify |-> verify_flag]
    /\ run_pc = "download"
    /\ run_log = <<>>
    /\ run_fetched = NoFetch
    /\ run_decoded = NoDecode
    /\ run_result = NoResurrection

RunIdle ==
    /\ run_in = <<>>
    /\ run_pc = "idle"
    /\ run_log = <<>>
    /\ run_fetched = NoFetch
    /\ run_decoded = NoDecode
    /\ run_result = NoResurrection

\* phase 1: encrypted_data = await self._store.download(tx_id)
RunDownload ==
    /\ run_pc = "download"
    /\ Len(run_log) < MaxPhases
    /\ \E io_ok \in BOOLEAN :
          LET fetched == download(run_in.store, run_in.tx_id, io_ok)
          IN  /\ run_fetched' = fetched
              /\ run_pc' = after_download(fetched)
              /\ run_result' = IF after_download(fetched) = "returned"
                               THEN failure(run_in.tx_id, <<fetched.err>>)
                               ELSE run_result
    /\ run_log' = Append(run_log, "download")
    /\ UNCHANGED <<run_in, run_decoded>>
    /\ UNCHANGED <<shamir_vars, merkle_vars, codec_vars, orch_vars>>

\* phase 2: soul = self._decoder.decode(encrypted_data)
RunDecode ==
    /\ run_pc = "decode"
    /\ Len(run_log) < MaxPhases
    /\ LET d == decode(run_fetched.data, KeyOf(1, 0), Now)
       IN  /\ run_decoded' = d
           /\ run_pc' = after_decode(d)
           /\ run_result' =
                 IF d.err = "none" THEN run_result
                 ELSE IF d.err \in SoulDecodeErrors
                 THEN failure(run_in.tx_id, <<"Decode failed: ", d.err>>)
                 ELSE failure(run_in.tx_id, <<d.err>>)
    /\ run_log' = Append(run_log, "decode")
    /\ UNCHANGED <<run_in, run_fetched>>
    /\ UNCHANGED <<shamir_vars, merkle_vars, codec_vars, orch_vars>>

\* phase 3 and the return: the root is recomputed only where the check runs
RunVerify ==
    /\ run_pc = "verify"
    /\ Len(run_log) < MaxPhases
    /\ LET soul == run_decoded.soul
           checked == integrity_check(soul, run_in.verify)
       IN  /\ run_log' = IF recomputes_root(soul, run_in.verify)
                         THEN Append(run_log, "compute_root") ELSE run_log
           /\ run_result' =
                 IF checked.err # "none" THEN failure(run_in.tx_id, <<checked.err>>)
                 ELSE ResurrectionResult(TRUE, soul, run_in.tx_id, checked.ok, <<>>,
                         [fragment_count |-> Len(soul.fragments),
                          model_origin |-> soul.model_origin,
                          soul_version |-> soul.version])
    /\ run_pc' = "returned"
    /\ UNCHANGED <<run_in, run_fetched, run_decoded>>
    /\ UNCHANGED <<shamir_vars, merkle_vars, codec_vars, orch_vars>>

RunNext == RunDownload \/ RunDecode \/ RunVerify

(***************************************************************************)
(* Inputs of the Shamir specification.                                     *)
(***************************************************************************)
\* a key split must reject: 31 bytes
ShortKey == [b \in 1..(KeyLen - 1) |-> b]

\* SHA-512 digests: which 64 bytes a key hashes to is not computed here,
\* the digest of the key is drawn once and stays the same for that key
DigestOf(s) == [j \in 1..SeedLen |-> (s * j * j + 7 * j + 13 * s) % 256]

Digests == {DigestOf(1), DigestOf(2)}

\* (threshold, num_shares): every small pair, valid or not, and share counts
\* that reach the prime
SplitArgs ==
    {<<t, n>> : t \in 1..MaxThreshold, n \in 1..MaxShares}
    \cup {<<2, Prime - 1>>, <<2, Prime>>, <<3, Prime>>, <<2, Prime + 1>>}

\* the share holders a combine may take shares from
Holders(n) == (1..Min(n, MaxShares)) \cup ({Prime - 1, Prime, Prime + 1} \cap (1..n))

\* lists of 0..MaxPick distinct holders: in any order for a share count up
\* to MaxShares, in holder order for the share counts that reach the prime
RECURSIVE PicksOfLen(_, _)
PicksOfLen(H, len) ==
    IF len = 0 THEN {<<>>}
    ELSE {Append(q, h) : q \in PicksOfLen(H, len - 1), h \in H}

IsInjective(q) == \A a, b \in 1..Len(q) : a # b => q[a] # q[b]

Picks(n) ==
    {q \in UNION {PicksOfLen(Holders(n), len) : len \in 0..MaxPick} :
        /\ IsInjective(q)
        /\ n > MaxShares => \A a \in 1..(Len(q) - 1) : q[a] < q[a + 1]}

NoResult == [err |-> "pending"]

\* what secrets.randbelow(257) returns, call after call
DrawsOf(d) == [j \in 1..(KeyLen * MaxThreshold) |-> (d * j + 3) % Prime]

Draws == {DrawsOf(0), DrawsOf(11)}

NoSplitAgain == [num_shares |-> 0, draws |-> <<>>, result |-> NoResult]

\* the key of Keys that was not split
OtherKey(k) == CHOOSE o \in Keys : o # k

\* shares that do not belong with share sh of the split: sh relabelled with
\* the other key's fingerprint, and the other key's share for the same
\* holder under the index of share first
StrayShares(sh, first) ==
    LET other == OtherKey(key)
    IN  {[sh EXCEPT !.fingerprint = fingerprint_of(other)],
         [index |-> first.index,
          data |-> share_data(other, rng_seed, threshold, sh.index - 1),
          fingerprint |-> fingerprint_of(other)]}

\* shares that carry the fingerprint of the split but are not what share sh
\* should be: a copy of share first, sh with one byte of its data changed,
\* and the share of the same holder from a split of the same key with
\* another threshold
WrongShares(sh, first) ==
    {first,
     [sh EXCEPT !.data[2] = (sh.data[2] + 1) % 256],
     [sh EXCEPT !.data = share_data(key, rng_seed, IF threshold = 2 THEN 3 ELSE 2,
                                    sh.index - 1)]}

IsAscending(shares) ==
    \A a \in 1..(Len(shares) - 1) : shares[a].index < shares[a + 1].index

\* the lists a caller may hand to combine: shares of the split in any order,
\* and shares in holder order with the last replaced by a stray share or by
\* a wrong share
Handed(shares) ==
    {shares} \cup
    IF shares # <<>> /\ IsAscending(shares)
    THEN {[shares EXCEPT ![Len(shares)] = stray]
             : stray \in StrayShares(shares[Len(shares)], shares[1])
                         \cup WrongShares(shares[Len(shares)], shares[1])}
    ELSE {}

(***************************************************************************)
(* The Shamir specification: split(key, threshold, num_shares), then       *)
(* combine over a list of the shares it returned.                          *)
(***************************************************************************)
ShamirStart ==
    /\ key \in Keys \cup {ShortKey}
    /\ \E a \in SplitArgs : threshold = a[1] /\ num_shares = a[2]
    /\ rng_seed \in Digests
    /\ split_result = NoResult
    /\ split_again = NoSplitAgain
    /\ combine_input = <<>>
    /\ combine_result = NoResult
    /\ shamir_pc = "start"

ShamirIdle ==
    /\ key = <<>>
    /\ threshold = 0
    /\ num_shares = 0
    /\ rng_seed = <<>>
    /\ split_result = NoResult
    /\ split_again = NoSplitAgain
    /\ combine_input = <<>>
    /\ combine_result = NoResult
    /\ shamir_pc = "idle"

Split ==
    /\ shamir_pc = "start"
    /\ \E draws \in Draws :
          split_result' = split(key, threshold, num_shares, rng_seed, draws)
    /\ shamir_pc' = "split"
    /\ UNCHANGED <<key, threshold, num_shares, rng_seed, split_again,
                   combine_input, combine_result>>
    /\ UNCHANGED <<merkle_vars, codec_vars, orch_vars, run_vars>>

\* the same key is split once more with the same threshold, for the same or
\* another share count
SplitAgain ==
    /\ shamir_pc = "split"
    /\ \E n \in (1..MaxShares) \cup {num_shares}, draws \in Draws :
          split_again' = [num_shares |-> n, draws |-> draws,
                          result |-> split(key, threshold, n, rng_seed, draws)]
    /\ shamir_pc' = "split again"
    /\ UNCHANGED <<key, threshold, num_shares, rng_seed, split_result,
                   combine_input, combine_result>>
    /\ UNCHANGED <<merkle_vars, codec_vars, orch_vars, run_vars>>

Combine ==
    /\ shamir_pc = "split"
    /\ split_result.err = "none"
    /\ \E q \in Picks(num_shares) :
          \E given \in Handed([s \in 1..Len(q) |-> split_result.shares[q[s]]]) :
             /\ combine_input' = given
             /\ combine_result' = combine(given, KeyLen)
    /\ shamir_pc' = "combined"
    /\ UNCHANGED <<key, threshold, num_shares, rng_seed, split_result, split_again>>
    /\ UNCHANGED <<merkle_vars, codec_vars, orch_vars, run_vars>>

ShamirNext == Split \/ SplitAgain \/ Combine

ShamirInit == ShamirStart /\ MerkleIdle /\ CodecIdle /\ OrchIdle /\ RunIdle

SpecShamir == ShamirInit /\ [][ShamirNext]_vars

(***************************************************************************)
(* Claims about ShamirKeyManager (checked under SpecShamir).               *)
(***************************************************************************)
SplitOk == shamir_pc # "start" /\ split_result.err = "none"

Combined == shamir_pc = "combined"

\* the indices of the shares handed to combine
PickedIndices == {combine_input[s].index : s \in 1..Len(combine_input)}

\* combine_input holds distinct shares of the split
DistinctPick ==
    /\ Cardinality(PickedIndices) = Len(combine_input)
    /\ \A s \in 1..Len(combine_input) :
          combine_input[s] = split_result.shares[combine_input[s].index]

ReturnedKey == combine_result = [err |-> "none", key |-> key]

\* C1: for every 32-byte key, every threshold T >= 2 and every share count
\* N >= T, combine over any T distinct shares of split(K, T, N), in any
\* order, returns exactly K.
C1_AnyThresholdSharesReturnKey ==
    (Combined /\ SplitOk /\ threshold >= 2 /\ num_shares >= threshold
        /\ DistinctPick /\ Len(combine_input) = threshold)
    => ReturnedKey

\* The same statement for share counts the field can tell apart
\* (num_shares <= Prime): there it holds.
ThresholdSharesReturnKeyUpToPrime ==
    (Combined /\ SplitOk /\ num_shares <= Prime
        /\ DistinctPick /\ Len(combine_input) = threshold)
    => ReturnedKey

\* C4: for every key, every threshold T >= 3 and N >= T, combine over s
\* distinct shares with 2 <= s < T does not return K and fails with the
\* reconstruction (fingerprint mismatch) error.
C4_BelowThresholdFails ==
    (Combined /\ SplitOk /\ threshold >= 3 /\ num_shares >= threshold
        /\ DistinctPick /\ Len(combine_input) >= 2
        /\ Len(combine_input) < threshold)
    => (~ReturnedKey /\ combine_result.err = "ShareReconstructionFailed")

\* The same statement for share counts below the prime, where no share is
\* evaluated at x = 0 mod Prime: there it holds for the digests drawn.
BelowThresholdFailsBelowPrime ==
    (Combined /\ SplitOk /\ threshold >= 3 /\ num_shares < Prime
        /\ DistinctPick /\ Len(combine_input) >= 2
        /\ Len(combine_input) < threshold)
    => (~ReturnedKey /\ combine_result.err = "ShareReconstructionFailed")

\* the value share i of the split stores at byte position byte_idx (0-based)
StoredValue(i, byte_idx) ==
    int_from_bytes(slice(split_result.shares[i].data, byte_idx * 2, byte_idx * 2 + 2))

\* byte positions whose derived coefficients are read from the same bytes
\* of the digest as those of position byte_idx
SameDigestBytes(byte_idx, t) ==
    {b \in 0..(KeyLen - 1) :
        \A c \in 0..(t - 2) :
            coeff_offset(b, c, t) % SeedLen = coeff_offset(byte_idx, c, t) % SeedLen}

\* Some digest makes split(k2, threshold, ...) give the shares in S the data
\* they hold: every coefficient value 0..Prime-1 is the reduction of some
\* pair of digest bytes, so a digest exists only if, for every byte
\* position, some coefficient values fit the position and all the positions
\* that read the same digest bytes.
FitsKey(k2, S) ==
    \A byte_idx \in 0..(KeyLen - 1) :
        \E a \in [1..(threshold - 1) -> 0..(Prime - 1)] :
            \A b \in SameDigestBytes(byte_idx, threshold) :
                \A i \in S :
                    eval_poly(<<k2[b + 1]>> \o a, i) % Prime = StoredValue(i, b)

\* keys an observer of the shares may take the split key to be
CandidateKeys == Keys \cup {[KeyOf(1, 0) EXCEPT ![1] = 77]}

\* C5: the data of fewer than threshold shares is consistent with every
\* 32-byte key when the digest is unknown, so the shares determine no key
\* byte and no relation between key bytes.
C5_FewerSharesFitEveryKey ==
    (shamir_pc = "split" /\ SplitOk)
    => \A S \in SUBSET Holders(Min(num_shares, MaxPick)) :
          (S # {} /\ Cardinality(S) < threshold)
          => \A k2 \in CandidateKeys : FitsKey(k2, S)

\* With threshold 2 every byte position has a coefficient of its own and a
\* single share fits every candidate key.
SingleShareFitsEveryKeyAtThreshold2 ==
    (shamir_pc = "split" /\ SplitOk /\ threshold = 2 /\ num_shares < Prime)
    => \A i \in Holders(num_shares) : \A k2 \in CandidateKeys : FitsKey(k2, {i})

MerkleInit == MerkleStart /\ ShamirIdle /\ CodecIdle /\ OrchIdle /\ RunIdle

SpecMerkle == MerkleInit /\ [][MerkleNext]_vars

(***************************************************************************)
(* Claims about MerkleIntegrity (checked under SpecMerkle).                *)
(***************************************************************************)
ValidIndex == tree_index >= 0 /\ tree_index < Len(tree_leaves)

\* C3: for every non-empty fragment sequence F, of odd or even length, and
\* every index i with 0 <= i < |F|, verify_proof(prove_fragment(F, i)) is
\* true.
C3_ProofOfValidIndexVerifies ==
    (merkle_pc \in {"proved", "verified"} /\ ValidIndex)
    => /\ tree_proof.err = "none"
       /\ merkle_pc = "verified" => tree_valid = TRUE

\* a proof for the last fragment of a list of odd length above 1 verified
C3_Witness ==
    /\ merkle_pc = "verified"
    /\ Len(tree_leaves) % 2 = 1 /\ Len(tree_leaves) >= 3
    /\ tree_index = Len(tree_leaves) - 1
    /\ Len(tree_proof.siblings) >= 2
    /\ tree_valid = TRUE

CodecInit == CodecStart /\ ShamirIdle /\ MerkleIdle /\ OrchIdle /\ RunIdle

SpecCodec == CodecInit /\ [][CodecNext]_vars

Init == OrchStart /\ ShamirIdle /\ MerkleIdle /\ CodecIdle /\ RunIdle

Spec == Init /\ [][Next]_vars

(***************************************************************************)
(* Claims about the codec (checked under SpecCodec).                       *)
(***************************************************************************)
Decoded == codec_pc = "decoded"

\* the payload reached decode as encode returned it, and the keys agree
RoundTrip == Decoded /\ wire = encoded /\ dec_key = enc_key

RECURSIVE HasTuple(_)
\* a Python value that holds a tuple somewhere
HasTuple(x) ==
    CASE x.t = "tuple" -> TRUE
      [] x.t = "list" -> \E i \in 1..Len(x.v) : HasTuple(x.v[i])
      [] x.t = "dict" -> \E k \in DOMAIN x.v : HasTuple(x.v[k])
      [] OTHER -> FALSE

\* C2 as stated: for every record R and key K, decode(encode(R, K), K) is a
\* record equal to R field for field, the fragments in the same order and
\* each equal to the original.
C2_RoundTripEveryRecord ==
    RoundTrip => (decoded.err = "none" /\ decoded.soul = enc_soul)

\* C2 as amended: the same for every record whose values JSON represents
\* unchanged (no tuple, which JSON writes as an array and reads as a list).
C2_RoundTripJsonValues ==
    (RoundTrip /\ ~HasTuple(asdict(enc_soul)))
    => (decoded.err = "none" /\ decoded.soul = enc_soul)

\* a record of two fragments and nested metadata came back equal
C2_Witness ==
    /\ RoundTrip
    /\ enc_soul = SoulTwo
    /\ decoded.err = "none"
    /\ decoded.soul.fragments = <<FragmentB, FragmentA>>
    /\ decoded.soul.metadata = SoulTwo.metadata

\* the payload on the wire differs from the encoder's in one ciphertext bit
OneCiphertextBitFlipped ==
    /\ wire.head = encoded.head
    /\ wire.box = encoded.box
    /\ Len(wire.xor) = Len(encoded.xor)
    /\ Cardinality({i \in 1..Len(wire.xor) : wire.xor[i] # encoded.xor[i]}) = 1

\* C6: with any single bit at offset 22 or later changed, decode under K
\* fails with the decryption-failed or the size-mismatch error and returns
\* no record.
C6_CiphertextBitFlipRejected ==
    (Decoded /\ OneCiphertextBitFlipped /\ dec_key = enc_key)
    => /\ decoded.err \in {"DecryptionFailed", "SizeMismatch"}
       /\ decoded.soul = NoSoul

\* a flip in the last byte of the payload (the tag) was rejected
C6_Witness ==
    /\ Decoded /\ OneCiphertextBitFlipped /\ dec_key = enc_key
    /\ wire.xor[Len(wire.xor)] = 128
    /\ decoded.err = "DecryptionFailed"

\* C7: decode of encode(R, K) under a key K2 # K fails with the
\* decryption-failed error and returns no record.
C7_WrongKeyRejected ==
    (Decoded /\ wire = encoded /\ dec_key # enc_key)
    => (decoded.err = "DecryptionFailed" /\ decoded.soul = NoSoul)

C7_Witness ==
    /\ Decoded /\ wire = encoded
    /\ enc_key = KeyOf(1, 0) /\ dec_key = KeyOf(37, 200)
    /\ decoded.err = "DecryptionFailed"

(***************************************************************************)
(* Claims about ResurrectionProtocol (checked under Spec).                 *)
(***************************************************************************)
\* the result is the failure result of resurrect(tx_id)
IsFailureOf(result, tx_id) ==
    /\ ~result.success
    /\ result.soul = NoSoul
    /\ ~result.integrity_verified
    /\ result.source_tx = tx_id
    /\ result.error # <<>>

\* C8: resurrect(objectId) never raises: when the download fails (unknown
\* id or a store error) or decoding fails at any stage it returns
\* success = false, no record, integrity_verified = false, the object id
\* and an error description; success = true comes only with the decoded
\* record.
C8_ResurrectReturnsFailureResult ==
    call.op = "resurrect"
    => /\ outcome.raised = "none"
       /\ (phases.download # "none" \/ phases.decode # "none")
          => IsFailureOf(outcome.result, call.tx_id)
       /\ outcome.result.success
          => /\ phases.decode = "none"
             /\ outcome.result.soul = phases.soul

\* decode raised an error that is not a SoulDecodeError (no agent_id in the
\* content) and resurrect returned the failure result
C8_Witness ==
    /\ call.op = "resurrect"
    /\ phases.download = "none"
    /\ phases.decode = "KeyError"
    /\ outcome.raised = "none"
    /\ IsFailureOf(outcome.result, call.tx_id)

\* C9: resurrect_latest and full_ceremony never propagate a dependency's
\* error: when the search fails, or encoding or the upload fails, they
\* return a failure result (success = false with a cause) instead of
\* raising.
C9_LatestAndCeremonyNeverRaise ==
    (/\ call.op \in {"resurrect_latest", "full_ceremony"}
     /\ \/ phases.search = "StoreError"
        \/ phases.encode = "TypeError"
        \/ phases.upload = "StoreError")
    => /\ outcome.raised = "none"
       /\ ~outcome.result.success
       /\ outcome.result.error # <<>>

\* What does hold: once the search has answered, or the payload is stored,
\* the call returns whatever the download and the decode do.
LatestAndCeremonyReturnAfterStoreAnswers ==
    (/\ call.op \in {"resurrect_latest", "full_ceremony"}
     /\ phases.search \in {"none", "skipped"}
     /\ phases.root \in {"none", "skipped"}
     /\ phases.encode \in {"none", "skipped"}
     /\ phases.upload \in {"none", "skipped"})
    => outcome.raised = "none"

\* the decoded record carries a stored root that is not the root of its
\* fragments
StoredRootDiffers ==
    /\ phases.decode = "none"
    /\ phases.soul.metadata.t = "dict"
    /\ "merkle_root" \in DOMAIN phases.soul.metadata.v
    /\ LET stored_root == phases.soul.metadata.v["merkle_root"]
       IN  ~(stored_root.t = "hex" /\ stored_root.v = compute_root(phases.soul))

\* C10: when the payload decodes and the decoded record's metadata carries
\* a stored Merkle root that differs from the recomputed root, resurrect
\* returns success = true with the decoded record and
\* integrity_verified = false.
C10_RootMismatchReported ==
    (call.op = "resurrect" /\ StoredRootDiffers)
    => /\ outcome.raised = "none"
       /\ outcome.result.success
       /\ outcome.result.soul = phases.soul
       /\ ~outcome.result.integrity_verified

\* What does hold: the mismatch is reported where verification is on and
\* the stored root is a non-empty value, and it never fails the call.
RootMismatchReportedWhenVerifying ==
    (call.op = "resurrect" /\ StoredRootDiffers)
    => /\ outcome.raised = "none"
       /\ outcome.result.success
       /\ outcome.result.soul = phases.soul
       /\ (verify /\ truthy(phases.soul.metadata.v["merkle_root"]))
          => ~outcome.result.integrity_verified

\* resurrect_latest(A) was called right after full_ceremony stored a record
\* of agent A, and the store answered the search and the download
LatestAfterCeremony ==
    /\ call.op = "resurrect_latest"
    /\ last_upload.by = "full_ceremony"
    /\ call.agent_id = last_upload.soul.agent_id
    /\ phases.search = "none"
    /\ phases.download # "StoreError"

\* the result is the revival of the record the ceremony stored
RevivedStoredRecord ==
    /\ outcome.raised = "none"
    /\ outcome.result.success
    /\ outcome.result.integrity_verified
    /\ outcome.result.soul.agent_id = call.agent_id
    /\ Len(outcome.result.soul.fragments) = Len(last_upload.soul.fragments)

\* C11: after full_ceremony(R) has stored R through a store,
\* resurrect_latest(A) for R's agent id A on the same orchestrator and store
\* returns success = true and integrity_verified = true with a record whose
\* agent_id is A and whose fragment count is that of R.
C11_LatestAfterCeremonyRevives ==
    LatestAfterCeremony => RevivedStoredRecord

\* What does hold: the same where the upload handed the Agent-Id tag on to
\* the index the search reads.
LatestAfterTaggedCeremonyRevives ==
    (LatestAfterCeremony /\ last_upload.tagged) => RevivedStoredRecord

RunInit == RunStart /\ ShamirIdle /\ MerkleIdle /\ CodecIdle /\ OrchIdle

SpecRun == RunInit /\ [][RunNext]_vars

\* the run leaves the phase it is in
RunAdvances ==
    /\ run_pc \in {"download", "decode", "verify"}
    /\ run_pc' \in {"decode", "verify", "returned"}

\* a pending download ends (the HTTP client gives up after its timeout) and
\* the other phases are plain computation: no run stays in a phase for ever
SpecRunFair == SpecRun /\ WF_run_pc(RunAdvances)

(***************************************************************************)
(* Claims about the phases of resurrect (checked under SpecRunFair).       *)
(***************************************************************************)
PhaseOrder == <<"download", "decode", "compute_root">>

\* the phases logged are the first phases of the pipeline, each once, and
\* none follows a phase that failed
PhasesOrderedOnce ==
    /\ Len(run_log) <= Len(PhaseOrder)
    /\ run_log = SubSeq(PhaseOrder, 1, Len(run_log))
    /\ Len(run_log) >= 2 => run_fetched.err = "none"
    /\ Len(run_log) >= 3 => run_decoded.err = "none"
    /\ run_pc = "returned"
       => /\ Len(run_log) >= 1
          /\ run_result # NoResurrection
          /\ (run_fetched.err # "none" \/ run_decoded.err # "none")
             => ~run_result.success

RunReturned == run_pc = "returned"

\* C12: in every run of resurrect the download is called exactly once and
\* first, decode only after a successful download, the root is recomputed
\* only after a successful decode, a failed phase ends the run in the
\* failure result with no later phase and no retry, and every run reaches
\* a result.
C12_PhasesOrderedAndRunEnds == []PhasesOrderedOnce /\ <>RunReturned

\* a run went through all three phases and returned
C12_Witness ==
    /\ run_pc = "returned"
    /\ run_log = PhaseOrder
    /\ run_result.success

\* the steps of a run end in the result resurrect returns
RunAgreesWithResurrect ==
    run_pc = "returned"
    => \E io_ok \in BOOLEAN :
          run_result = resurrect(run_in.store, run_in.tx_id, io_ok, KeyOf(1, 0),
                                 run_in.verify, Now).result

(***************************************************************************)
(* Claims about the checks of split and combine (checked under SpecShamir).*)
(***************************************************************************)
Fingerprints == {combine_input[s].fingerprint : s \in 1..Len(combine_input)}

MixedFingerprints ==
    /\ Combined
    /\ Len(combine_input) >= 2
    /\ Cardinality(Fingerprints) > 1

\* C13: combine over two or more shares that do not all carry the same
\* fingerprint fails with the mismatched-fingerprints error and returns no
\* key, whatever the indices and the data of the shares.
C13_MixedFingerprintsRejected ==
    MixedFingerprints
    => combine_result = [err |-> "MismatchedShareFingerprints", key |-> <<>>]

\* a threshold-many list whose last share was relabelled with another
\* fingerprint, its index and data untouched, was handed to combine
C13_Witness ==
    /\ MixedFingerprints
    /\ Len(combine_input) = threshold
    /\ \A s \in 1..Len(combine_input) :
          /\ combine_input[s].data = split_result.shares[combine_input[s].index].data
          /\ (s < Len(combine_input)
              => combine_input[s].fingerprint = fingerprint_of(key))

(***************************************************************************)
(* Claims about proofs and roots (checked under SpecMerkle).               *)
(***************************************************************************)
Proved == merkle_pc \in {"proved", "verified"}

\* C14: prove_fragment(F, i) for an index outside 0..|F|-1 (a negative
\* index, an index >= |F|, any index when F is empty) fails with an error
\* and returns no proof.
C14_IndexOutsideRangeFails ==
    (Proved /\ tree_index \notin 0..(Len(tree_leaves) - 1))
    => tree_proof = NoProof

\* What holds: the call fails for an index >= |F| and for an index < -|F|;
\* an index in -|F|..-1 counts from the end of the list and gets a proof.
IndexBeyondEitherEndFails ==
    (Proved /\ (tree_index >= Len(tree_leaves) \/ tree_index < 0 - Len(tree_leaves)))
    => tree_proof = NoProof

NegativeIndexWithinLengthProved ==
    (Proved /\ tree_index < 0 /\ tree_index >= 0 - Len(tree_leaves))
    => /\ tree_proof.err = "none"
       /\ tree_proof.leaf_index = tree_index
       /\ tree_proof.leaf_hash = leaf_hash(tree_leaves[Len(tree_leaves) + tree_index + 1])

Judged == merkle_pc = "judged"

\* tree_proof is the proof prove_fragment returned with one hash replaced
OneHashReplaced == tree_proof \in Forgeries(prove_fragment(tree_leaves, tree_index))

\* C15: verify_proof is true exactly when the fold of the leaf hash with the
\* siblings equals the stored root; hence a proof produced by prove_fragment
\* in which the leaf hash, one sibling hash or the root was replaced by a
\* different hash is judged false; the answer is a boolean.
C15_ReplacedHashRejected ==
    (Judged /\ OneHashReplaced)
    => /\ tree_valid \in BOOLEAN
       /\ tree_valid = (fold_proof(tree_proof.leaf_hash, tree_proof.siblings, 1)
                            = tree_proof.root)
       /\ tree_valid = FALSE

\* What holds: the same for a proof of an index in 0..|F|-1.  A proof that
\* prove_fragment returned for a negative index need not verify, and a
\* replaced hash can then make it verify.
ReplacedHashOfValidIndexRejected ==
    (Judged /\ OneHashReplaced /\ ValidIndex)
    => /\ tree_valid \in BOOLEAN
       /\ tree_valid = (fold_proof(tree_proof.leaf_hash, tree_proof.siblings, 1)
                            = tree_proof.root)
       /\ tree_valid = FALSE

\* verify_proof answers with the comparison of the fold and the stored root
VerifyAnswersFoldEqualsRoot ==
    merkle_pc \in {"verified", "judged"}
    => tree_valid = (fold_proof(tree_proof.leaf_hash, tree_proof.siblings, 1)
                         = tree_proof.root)

(***************************************************************************)
(* Claims about the errors of decode (checked under SpecRunFair).          *)
(***************************************************************************)
DecodeCalled == Len(run_log) >= 2

\* C16: every failure of decode is the classified decode error: a payload
\* that authenticates and decompresses but whose content is not a
\* well-formed record (not JSON, not an object, no agent_id, a fragment with
\* missing or unknown fields) fails with the decode error, never with an
\* unclassified one.
C16_DecodeFailuresClassified ==
    DecodeCalled => run_decoded.err \in SoulDecodeErrors \cup {"none"}

\* the content of the payload, where it authenticates, decompresses and is
\* JSON text
ParsedContent(data, k) ==
    LET opened == aesgcm_decrypt(k, slice(data.head, 6, 18),
                                 [box |-> data.box, xor |-> data.xor], MAGIC)
    IN  IF payload_len(data) >= HeaderLen /\ opened.ok /\ zlib_decompress(opened.pt).ok
        THEN loads(zlib_decompress(opened.pt).raw)
        ELSE NoParse

\* What holds: the checks up to and including the JSON parse raise the
\* decode error; content that parses but is not a record raises KeyError,
\* TypeError or AttributeError out of _reconstruct.
FailuresBeforeReconstructClassified ==
    DecodeCalled
    => \/ run_decoded.err \in SoulDecodeErrors \cup {"none"}
       \/ /\ run_decoded.err \in {"KeyError", "TypeError", "AttributeError"}
          /\ ParsedContent(run_fetched.data, KeyOf(1, 0)).ok

RootedAgain == merkle_pc = "rooted again"

\* the further call was made on the list with one fragment replaced by a
\* different one
OneFragmentReplaced ==
    /\ Len(tree_again.leaves) = Len(tree_leaves)
    /\ Cardinality({i \in 1..Len(tree_leaves) : tree_again.leaves[i] # tree_leaves[i]}) = 1

\* the further call was made on the same fragments in a different order
Reordered ==
    /\ tree_again.leaves # tree_leaves
    /\ tree_again.leaves \in PermsOf(tree_leaves)

\* C17 as stated: replacing fragment i by a fragment with a different value,
\* or permuting F into a different sequence of the same length, changes
\* compute_root.
C17_ChangedSequenceChangesRoot ==
    (RootedAgain /\ (OneFragmentReplaced \/ Reordered))
    => tree_again.root # tree_root

\* the canonical JSON of every fragment of the list
canonical(leaves) == [i \in 1..Len(leaves) |-> dumps(leaves[i])]

\* C17, amended: replacing fragment i by a fragment whose canonical JSON
\* differs, or permuting F into a sequence of the same length whose
\* canonical JSON differs, changes compute_root; a tuple put for the list of
\* the same items (or the reverse) leaves it unchanged.
C17_ChangedJsonChangesRoot ==
    (RootedAgain /\ (OneFragmentReplaced \/ Reordered))
    => (tree_again.root # tree_root
        <=> canonical(tree_again.leaves) # canonical(tree_leaves))

\* a list of odd length above 1 had its last fragment, the one the padding
\* doubles, replaced by one of another value, and the root changed
C17_Witness ==
    /\ RootedAgain /\ OneFragmentReplaced
    /\ Len(tree_leaves) % 2 = 1 /\ Len(tree_leaves) >= 3
    /\ tree_index = Len(tree_leaves) - 1
    /\ tree_again.leaves[Len(tree_leaves)] = asdict_fragment(FragmentA2)
    /\ tree_again.root # tree_root

\* the order of a list of four or more fragments was changed
ReorderedWitness ==
    RootedAgain /\ Reordered /\ Len(tree_leaves) >= 4 /\ tree_again.root # tree_root

SplitCalled == shamir_pc # "start"

\* C18: split succeeds exactly when the key has 32 bytes and
\* 2 <= threshold <= num_shares; otherwise it fails with an error and
\* returns no shares; combine over fewer than 2 shares fails with the
\* insufficient-shares error.
C18_SplitAndCombinePreconditions ==
    /\ SplitCalled
       => /\ split_result.err = "none"
             <=> (Len(key) = KeyLen /\ 2 <= threshold /\ threshold <= num_shares)
          /\ split_result.err = "none" => Len(split_result.shares) = num_shares
          /\ split_result.err # "none"
             => /\ split_result.err \in {"InvalidKeyLength", "InvalidThreshold"}
                /\ split_result.shares = <<>>
    /\ (Combined /\ Len(combine_input) < 2)
       => combine_result = [err |-> "InsufficientShares", key |-> <<>>]

\* one share of a split that succeeded was handed to combine
C18_Witness ==
    /\ Combined
    /\ split_result.err = "none"
    /\ Len(combine_input) = 1
    /\ combine_result.err = "InsufficientShares"

\* split refused a threshold of 1 and a threshold above the share count, and
\* a key of 31 bytes
SplitRefusedWitness ==
    /\ SplitCalled
    /\ split_result.err = "InvalidThreshold"
    /\ threshold = 1

(***************************************************************************)
(* Claims about resurrect_latest (checked under Spec).                     *)
(***************************************************************************)
\* the ids the store holds under the Agent-Id tag, oldest first
TaggedWith(agent_id) ==
    LET hits == SelectSeq(tag_index, LAMBDA e : e.agent = agent_id)
    IN  [i \in 1..Len(hits) |-> hits[i].tx]

LatestSearched == call.op = "resurrect_latest" /\ phases.search = "none"

\* the outcome is what resurrect(tx_id) returns
IsOutcomeOfResurrect(tx_id) ==
    \E io_ok \in BOOLEAN :
       LET out == resurrect(store, tx_id, io_ok, orch_key, verify, Now)
       IN  /\ outcome.raised = out.raised
           /\ outcome.result = out.result
           /\ phases.download = download(store, tx_id, io_ok).err

\* C19: where the search returns no id, resurrect_latest returns the failure
\* result with the agent-not-found cause and neither download nor decode is
\* called; where it returns ids, the result is that of resurrect on the
\* first, most recent, id.
C19_LatestDelegatesToNewest ==
    LatestSearched
    => LET ids == TaggedWith(call.agent_id)
       IN  IF ids = <<>>
           THEN /\ outcome.raised = "none"
                /\ ~outcome.result.success
                /\ outcome.result.soul = NoSoul
                /\ outcome.result.error = <<"No soul found for agent: ", call.agent_id.v>>
                /\ phases.download = "skipped"
                /\ phases.decode = "skipped"
           ELSE IsOutcomeOfResurrect(ids[Len(ids)])

\* two objects carry the agent's tag, and the result is the one of the newer
\* and not the one of the older
C19_Witness ==
    /\ LatestSearched
    /\ Len(TaggedWith(call.agent_id)) = 2
    /\ IsOutcomeOfResurrect(TaggedWith(call.agent_id)[2])
    /\ ~IsOutcomeOfResurrect(TaggedWith(call.agent_id)[1])

\* no object carries the agent's tag and the failure result came back
NotFoundWitness ==
    /\ LatestSearched
    /\ TaggedWith(call.agent_id) = <<>>
    /\ store # <<>>
    /\ ~outcome.result.success

\* the SHA-256 digest of b"empty-soul"
EmptySoulRoot == sha256(<<"empty-soul">>)

\* C20: compute_root of an empty fragment sequence returns the same fixed
\* sentinel hash on every call and does not fail.
C20_EmptyRootIsSentinel ==
    /\ (merkle_pc # "start" /\ tree_leaves = <<>>) => tree_root = EmptySoulRoot
    /\ (RootedAgain /\ tree_again.leaves = <<>>)
       => /\ tree_again.root = EmptySoulRoot
          /\ tree_again.root = tree_root

\* compute_root was called twice on the empty sequence
C20_Witness ==
    /\ RootedAgain
    /\ tree_leaves = <<>>
    /\ tree_again.leaves = <<>>
    /\ tree_again.root = EmptySoulRoot

\* no sequence with a fragment in it has the sentinel as its root
SentinelOnlyForEmpty ==
    (merkle_pc # "start" /\ tree_leaves # <<>>) => tree_root # EmptySoulRoot

\* C21: for every non-empty fragment sequence F, a single fragment
\* included, and every index i in 0..|F|-1, the root carried by
\* prove_fragment(F, i) equals compute_root(F).
C21_ProofRootIsComputedRoot ==
    (Proved /\ ValidIndex) => tree_proof.root = tree_root

\* What holds: the same for two fragments or more.  For a single fragment
\* prove_fragment pads the one leaf hash h to [h, h] and carries the hash of
\* that pair, while compute_root returns h.
ProofRootIsComputedRootFromTwo ==
    (Proved /\ ValidIndex /\ Len(tree_leaves) >= 2) => tree_proof.root = tree_root

SingleFragmentProofRootIsPairHash ==
    (Proved /\ ValidIndex /\ Len(tree_leaves) = 1)
    => /\ tree_root = leaf_hash(tree_leaves[1])
       /\ tree_proof.root = node_hash(tree_root, tree_root)

(***************************************************************************)
(* Claims about integrity_verified (checked under SpecRunFair).            *)
(***************************************************************************)
RunSucceeded == run_pc = "returned" /\ run_result.success

RootRecomputed == Len(run_log) = 3 /\ run_log[3] = "compute_root"

\* the root stored in the decoded record's metadata, PyNone where there is none
StoredRootOf(soul) ==
    IF soul.metadata.t = "dict" /\ "merkle_root" \in DOMAIN soul.metadata.v
    THEN soul.metadata.v["merkle_root"]
    ELSE PyNone

\* C22: a result of resurrect carries integrity_verified = true only if the
\* Merkle root was recomputed over the decoded fragments and found equal to
\* the stored root; with no stored root, or with verification disabled, the
\* result does not report integrity_verified = true.
C22_VerifiedOnlyAfterRecomputation ==
    (RunSucceeded /\ run_result.integrity_verified)
    => /\ RootRecomputed
       /\ StoredRootOf(run_result.soul) = PyHex(compute_root(run_result.soul))

\* What holds: where the root was recomputed the flag is the comparison;
\* where it was not (no stored root, an empty one, or verify = False) the
\* flag keeps its initial value True.
VerifiedIsComparisonWhereRecomputed ==
    (RunSucceeded /\ RootRecomputed)
    => (run_result.integrity_verified
        <=> StoredRootOf(run_result.soul) = PyHex(compute_root(run_result.soul)))

VerifiedReportedWithoutRecomputation ==
    (RunSucceeded /\ ~RootRecomputed) => run_result.integrity_verified

OneFingerprint ==
    /\ Combined
    /\ Len(combine_input) >= 2
    /\ Cardinality(Fingerprints) = 1

\* combine_input is not a list of distinct shares of the split: a share is
\* repeated, has altered data or comes from a split with another threshold
HoldsWrongShare == OneFingerprint /\ ~DistinctPick

\* C23: combine never returns a wrong key: over two or more shares that
\* carry one fingerprint (repeated shares, shares with altered data, shares
\* of splits of the same key with different thresholds) it fails and
\* returns no key, or returns a key with the shares' fingerprint, the key
\* that was split.
C23_CombineNeverReturnsWrongKey ==
    OneFingerprint
    => IF combine_result.err = "none"
       THEN /\ fingerprint_of(combine_result.key) = combine_input[1].fingerprint
            /\ combine_result.key = key
       ELSE combine_result.key = <<>>

\* a list with a wrong share in it was handed to combine, which failed at
\* its final comparison
C23_Witness ==
    /\ HoldsWrongShare
    /\ Len(combine_input) >= threshold
    /\ combine_result.err = "ShareReconstructionFailed"

\* a list with a repeated share in it was handed to combine
RepeatedShareWitness ==
    /\ OneFingerprint
    /\ Cardinality(PickedIndices) < Len(combine_input)

\* the further call was made on the list followed by a copy of its last
\* fragment
LastFragmentDoubled ==
    /\ RootedAgain
    /\ tree_leaves # <<>>
    /\ tree_again.leaves = Append(tree_leaves, tree_leaves[Len(tree_leaves)])

\* C24: a fragment list of odd length 3 or more has the root of the list
\* followed by a copy of its last fragment; the root of a single fragment
\* is its leaf hash and differs from the root of the fragment listed twice.
C24_OddListPaddedWithLastFragment ==
    LastFragmentDoubled
    => /\ (Len(tree_leaves) % 2 = 1 /\ Len(tree_leaves) >= 3)
          => tree_again.root = tree_root
       /\ Len(tree_leaves) = 1
          => /\ tree_root = leaf_hash(tree_leaves[1])
             /\ tree_again.root # tree_root

\* a list of five fragments, first and last different, and the same list
\* with its last fragment once more have one root
C24_Witness ==
    /\ LastFragmentDoubled
    /\ Len(tree_leaves) = 5
    /\ tree_leaves[1] # tree_leaves[5]
    /\ tree_again.root = tree_root

\* a single fragment and the fragment listed twice have different roots
SingleFragmentDoubledWitness ==
    /\ LastFragmentDoubled
    /\ Len(tree_leaves) = 1
    /\ tree_again.root = node_hash(tree_root, tree_root)

\* a list of even length and the list with its last fragment once more have
\* different roots
EvenListDoubledLastChangesRoot ==
    (LastFragmentDoubled /\ Len(tree_leaves) % 2 = 0) => tree_again.root # tree_root

\* decode under the encoding key met a payload whose header differs from
\* the encoded one: header bytes changed, or the payload cut short
HeaderChanged ==
    /\ Decoded
    /\ dec_key = enc_key
    /\ wire.head # encoded.head
    /\ \/ payload_len(wire) < HeaderLen
       \/ (wire.box = encoded.box /\ wire.xor = encoded.xor)

\* the error the order of decode's checks gives a payload with a changed
\* header
HeaderError ==
    IF payload_len(wire) < HeaderLen THEN "PayloadTooShort"
    ELSE IF slice(wire.head, 0, 5) # slice(encoded.head, 0, 5) THEN "BadMagic"
    ELSE IF wire.head[6] # encoded.head[6] THEN "UnsupportedVersion"
    ELSE IF slice(wire.head, 6, 18) # slice(encoded.head, 6, 18) THEN "DecryptionFailed"
    ELSE "SizeMismatch"

\* C25: every header byte is protected: decode under K of encode(R, K) with
\* any header byte changed fails, with payload-too-short for fewer than 22
\* bytes, else bad-magic for a changed magic, else unsupported-version for a
\* changed version, else decryption-failed for a changed nonce, else
\* size-mismatch for a changed length field.
C25_HeaderChangeRejected ==
    HeaderChanged => (decoded.soul = NoSoul /\ decoded.err = HeaderError)

\* only the length field was changed and decode failed with size-mismatch
C25_Witness ==
    /\ HeaderChanged
    /\ payload_len(wire) = payload_len(encoded)
    /\ slice(wire.head, 0, 18) = slice(encoded.head, 0, 18)
    /\ decoded.err = "SizeMismatch"

\* magic and version were both changed and decode failed with bad-magic
MagicCheckedBeforeVersion ==
    /\ HeaderChanged
    /\ payload_len(wire) = payload_len(encoded)
    /\ slice(wire.head, 0, 5) # MAGIC
    /\ wire.head[6] # FORMAT_VERSION
    /\ decoded.err = "BadMagic"

\* version and nonce were both changed and decode failed with
\* unsupported-version
VersionCheckedBeforeDecryption ==
    /\ HeaderChanged
    /\ payload_len(wire) = payload_len(encoded)
    /\ slice(wire.head, 0, 5) = MAGIC
    /\ wire.head[6] # FORMAT_VERSION
    /\ slice(wire.head, 6, 18) # slice(encoded.head, 6, 18)
    /\ decoded.err = "UnsupportedVersion"

\* nonce and length field were both changed and decode failed with
\* decryption-failed
NonceCheckedBeforeSize ==
    /\ HeaderChanged
    /\ payload_len(wire) = payload_len(encoded)
    /\ slice(wire.head, 0, 6) = slice(encoded.head, 0, 6)
    /\ slice(wire.head, 6, 18) # slice(encoded.head, 6, 18)
    /\ slice(wire.head, 18, 22) # slice(encoded.head, 18, 22)
    /\ decoded.err = "DecryptionFailed"

\* a payload with a changed magic, cut to fewer than 22 bytes, failed with
\* payload-too-short
LengthCheckedBeforeMagic ==
    /\ HeaderChanged
    /\ payload_len(wire) >= 5
    /\ slice(wire.head, 0, 5) # MAGIC
    /\ decoded.err = "PayloadTooShort"

CeremonyCalled == call.op = "full_ceremony"

\* the root full_ceremony computes over the fragments of the record
CeremonyRoot == PyHex(compute_root(call.soul))

\* the metadata entries of a record other than the root
OtherEntries(soul) ==
    [name \in DOMAIN soul.metadata.v \ {"merkle_root"} |-> soul.metadata.v[name]]

\* C26: full_ceremony changes the caller's record only by setting
\* metadata["merkle_root"] to compute_root of its fragments: agent_id,
\* version, created_at, model_origin, the fragments and every other
\* metadata entry are unchanged, and a further full_ceremony on the record
\* it left stores the same root.
C26_CeremonySetsOnlyMerkleRoot ==
    CeremonyCalled
    => /\ call.record.agent_id = call.soul.agent_id
       /\ call.record.version = call.soul.version
       /\ call.record.created_at = call.soul.created_at
       /\ call.record.model_origin = call.soul.model_origin
       /\ call.record.fragments = call.soul.fragments
       /\ OtherEntries(call.record) = OtherEntries(call.soul)
       /\ phases.root # "none" => call.record = call.soul
       /\ phases.root = "none"
          => /\ StoredRootOf(call.record) = CeremonyRoot
             /\ StoredRootOf(call.soul) = CeremonyRoot => call.record = call.soul
             /\ compute_root(call.record) = compute_root(call.soul)

\* a record with other metadata entries and a root of other fragments got
\* the root of its own
C26_Witness ==
    /\ CeremonyCalled
    /\ call.soul = SoulWrongRoot
    /\ call.record = SoulStamped
    /\ outcome.raised = "none"

\* full_ceremony ran on a record an earlier full_ceremony had left, whose
\* payload is in the store, and left it as it was
CeremonyAgainWitness ==
    /\ CeremonyCalled
    /\ call.soul = SoulStamped
    /\ call.record = SoulStamped
    /\ Cardinality(DOMAIN store) = 1
    /\ tag_index # <<>>
    /\ outcome.result.success

\* the record is left without a root where compute_root raised
CeremonyLeftRecordWitness ==
    /\ CeremonyCalled
    /\ phases.root = "TypeError"
    /\ call.record = call.soul
    /\ StoredRootOf(call.record) = PyNone

\* the record has its root although the encoding failed after it was set
StampedBeforeEncodeFailedWitness ==
    /\ CeremonyCalled
    /\ phases.encode = "TypeError"
    /\ StoredRootOf(call.record) = CeremonyRoot
    /\ call.record # call.soul

SplitAgainCalled == shamir_pc = "split again"

\* C27: split is deterministic in its arguments: a further split of the
\* same key with the same threshold and share count returns the same
\* shares, whatever secrets.randbelow returned in either call, and with
\* another share count share i is the same for every i up to the lower
\* count.
C27_SplitDeterministic ==
    SplitAgainCalled
    => /\ split_again.num_shares = num_shares => split_again.result = split_result
       /\ (split_result.err = "none" /\ split_again.result.err = "none")
          => \A i \in 1..Min(num_shares, split_again.num_shares) :
                split_again.result.shares[i] = split_result.shares[i]

\* the same arguments gave the same shares a second time, the random
\* coefficients being other than the derived ones
C27_Witness ==
    /\ SplitAgainCalled
    /\ split_again.num_shares = num_shares
    /\ split_again.draws = DrawsOf(11)
    /\ split_result.err = "none"
    /\ split_again.result.shares = split_result.shares
    /\ threshold = 3
    /\ split_result.shares[1].data
          # [b \in 1..(2 * KeyLen) |->
                IF b % 2 = 1 THEN 0
                ELSE random_share_data(key, split_again.draws, threshold, 0)[b \div 2]]

\* the second split was for more shares than the first
MoreSharesWitness ==
    /\ SplitAgainCalled
    /\ split_result.err = "none"
    /\ split_again.result.err = "none"
    /\ num_shares >= 2
    /\ split_again.num_shares > num_shares

\* the second split was for fewer shares than the first had, down from a
\* share count that reaches the prime
FewerSharesWitness ==
    /\ SplitAgainCalled
    /\ split_result.err = "none"
    /\ split_again.result.err = "none"
    /\ num_shares >= Prime
    /\ split_again.num_shares < num_shares

=============================================================================
